---- MODULE Spec2Model ----
(***************************************************************************)
(* SmartCSV: the cleaning pipeline (etl.py, ETLPipeline) and the insight   *)
(* engine (insights.py) as a state machine over small tables.              *)
(*                                                                         *)
(* A table is [n |-> row count, cols |-> sequence of columns]; a column is *)
(* [name, dtype, vals].  Column names are sequences of one-character       *)
(* strings, so that standardize_columns works on characters as re.sub      *)
(* does.  A numeric cell is a rational <<num, den>> in lowest terms        *)
(* (den > 0); <<0,0>> is NaN, <<1,0>> is +inf and <<-1,0>> is -inf, with   *)
(* IEEE-754 rules for the specials.  Floating-point rounding of finite     *)
(* values is not modelled: finite arithmetic is exact.  A text cell is a   *)
(* sequence of characters (NA for a missing one); a datetime cell is       *)
(* <<y, m, d>> (NaT for a missing one), and to_datetime parses ISO dates   *)
(* only.  A log entry is a record [kind, cols, n, m] of the f-string's     *)
(* parts.  Of the insight bundle, column_types, descriptive_stats (without *)
(* std, skewness, kurtosis), correlation, charts (type, columns, number of *)
(* points), frequency_tables, insights (each sentence as its group, its    *)
(* columns, words and numbers) and summary are modelled.  A stored file is *)
(* its header and rows of fields; the web application (app.py) is its      *)
(* three handlers over the two folders, with the responses and the server  *)
(* log they produce.                                                       *)
(***************************************************************************)
EXTENDS Integers, Sequences, FiniteSets, TLC

VARIABLES
    raw,              \* the table the caller handed to the first pipeline
    df,               \* self.df of the running pipeline
    transformations,  \* self.transformations
    outlier_counts,   \* self.outlier_counts
    pc,               \* position in run(): 1..9 the step called next, 10 returned
    pass,             \* 1: the run on the raw table, 2: a run on the cleaned table
    called,           \* the methods run() has called so far, in call order
    before,           \* self.df and self.transformations when the last step started
    bundle,           \* the result of generate_full_insights, <<>> before the call
    uploads,          \* the files of UPLOAD_FOLDER; a file's name is its position
    processed,        \* the files of PROCESSED_FOLDER: [name of the upload, file]
    response,         \* the response to the last request, <<>> before the first
    server_log        \* the set of records the handlers logged

vars == <<raw, df, transformations, outlier_counts, pc, pass, called, before, bundle,
          uploads, processed, response, server_log>>

\* the state of the pipeline object and of the insight bundle
etlvars == <<raw, df, transformations, outlier_counts, pc, pass, called, before, bundle>>

\* the state of the web application besides its stored files
webvars == <<uploads, response, server_log>>

---------------------------------------------------------------------------
(* Sequence helpers *)

Range(s) == {s[i] : i \in 1..Len(s)}

RECURSIVE SeqOfSet(_)
SeqOfSet(S) ==
    IF S = {} THEN <<>>
    ELSE LET x == CHOOSE y \in S : TRUE IN <<x>> \o SeqOfSet(S \ {x})

RECURSIVE SelectIdx(_, _, _)
\* the indices i of 1..n, ascending, with keep[i]
SelectIdx(keep, i, n) ==
    IF i > n THEN <<>>
    ELSE (IF keep[i] THEN <<i>> ELSE <<>>) \o SelectIdx(keep, i + 1, n)

Take(s, idx) == [k \in 1..Len(idx) |-> s[idx[k]]]

Abs(x) == IF x < 0 THEN -x ELSE x

RECURSIVE Gcd(_, _)
Gcd(a, b) == IF b = 0 THEN a ELSE Gcd(b, a % b)

---------------------------------------------------------------------------
(* Characters and strings-as-sequences (str.strip, str.lower, re.sub) *)

LowerCase == <<"a","b","c","d","e","f","g","h","i","j","k","l","m",
               "n","o","p","q","r","s","t","u","v","w","x","y","z">>
UpperCase == <<"A","B","C","D","E","F","G","H","I","J","K","L","M",
               "N","O","P","Q","R","S","T","U","V","W","X","Y","Z">>
Digits == {"0","1","2","3","4","5","6","7","8","9"}
Whitespace == {" ", "\t", "\n"}

\* str.lower() on one character
LowerChar(c) ==
    IF \E i \in 1..26 : UpperCase[i] = c
    THEN LowerCase[CHOOSE i \in 1..26 : UpperCase[i] = c]
    ELSE c

\* the class [a-z0-9_] of the regular expressions of standardize_columns
InClass(c) == c \in Range(LowerCase) \cup Digits \cup {"_"}

RECURSIVE LStrip(_, _)
LStrip(s, chars) ==
    IF s # <<>> /\ Head(s) \in chars THEN LStrip(Tail(s), chars) ELSE s

RECURSIVE RStrip(_, _)
RStrip(s, chars) ==
    IF s # <<>> /\ s[Len(s)] \in chars
    THEN RStrip(SubSeq(s, 1, Len(s) - 1), chars) ELSE s

\* str.strip(chars)
Strip(s, chars) == RStrip(LStrip(s, chars), chars)

\* str.lower()
Lower(s) == [i \in 1..Len(s) |-> LowerChar(s[i])]

\* re.sub(r"[^a-z0-9_]", "_", s)
SubNonClass(s) == [i \in 1..Len(s) |-> IF InClass(s[i]) THEN s[i] ELSE "_"]

RECURSIVE SubRuns(_)
\* re.sub(r"_+", "_", s)
SubRuns(s) ==
    IF Len(s) < 2 THEN s
    ELSE IF s[1] = "_" /\ s[2] = "_" THEN SubRuns(Tail(s))
         ELSE <<s[1]>> \o SubRuns(Tail(s))

\* str.startswith(p)
StartsWith(s, p) == Len(s) >= Len(p) /\ SubSeq(s, 1, Len(p)) = p

---------------------------------------------------------------------------
(* Numeric cells: rationals with IEEE specials *)

NaN == <<0, 0>>
PosInf == <<1, 0>>
NegInf == <<-1, 0>>

IsNaN(a) == a = NaN
IsInf(a) == a[2] = 0 /\ a[1] # 0
IsFinite(a) == a[2] # 0

Sign(x) == IF x > 0 THEN 1 ELSE IF x < 0 THEN -1 ELSE 0

\* the rational n/d (d # 0) in lowest terms with a positive denominator
Rat(n, d) ==
    LET g == Gcd(Abs(n), Abs(d))
        s == IF d < 0 THEN -1 ELSE 1
    IN <<(s * n) \div g, (s * d) \div g>>

Num(k) == <<k, 1>>

RAdd(a, b) ==
    IF IsNaN(a) \/ IsNaN(b) THEN NaN
    ELSE IF IsInf(a) /\ IsInf(b) THEN (IF a = b THEN a ELSE NaN)
    ELSE IF IsInf(a) THEN a
    ELSE IF IsInf(b) THEN b
    ELSE Rat(a[1] * b[2] + b[1] * a[2], a[2] * b[2])

RNeg(a) == <<-a[1], a[2]>>

RSub(a, b) == RAdd(a, RNeg(b))

RMul(a, b) ==
    IF IsNaN(a) \/ IsNaN(b) THEN NaN
    ELSE IF IsInf(a) \/ IsInf(b)
         THEN (IF a[1] = 0 \/ b[1] = 0 THEN NaN
               ELSE <<Sign(a[1]) * Sign(b[1]), 0>>)
    ELSE Rat(a[1] * b[1], a[2] * b[2])

\* float division as numpy does it: x/0 is +-inf, 0/0 and inf/inf are NaN
RDiv(a, b) ==
    IF IsNaN(a) \/ IsNaN(b) THEN NaN
    ELSE IF IsInf(a) THEN (IF IsInf(b) THEN NaN
                           ELSE <<a[1] * (IF b[1] < 0 THEN -1 ELSE 1), 0>>)
    ELSE IF IsInf(b) THEN Num(0)
    ELSE IF b[1] = 0 THEN (IF a[1] = 0 THEN NaN ELSE <<Sign(a[1]), 0>>)
    ELSE Rat(a[1] * b[2], a[2] * b[1])

\* a < b; FALSE when either is NaN
RLt(a, b) ==
    IF IsNaN(a) \/ IsNaN(b) THEN FALSE
    ELSE IF IsInf(a) \/ IsInf(b)
         THEN (IF IsInf(a) /\ IsInf(b) THEN a[1] < b[1]
               ELSE IF IsInf(a) THEN a[1] < 0
               ELSE b[1] > 0)
    ELSE a[1] * b[2] < b[1] * a[2]

RGt(a, b) == RLt(b, a)

\* a == b as floats compare: NaN equals nothing
REq(a, b) == ~IsNaN(a) /\ ~IsNaN(b) /\ a = b

RAbs(a) == <<Abs(a[1]), a[2]>>

RIsInt(a) == a[2] = 1

(* Natural numbers beyond 32 bits, for the comparisons whose products do not fit:
   little-endian sequences of base-10000 digits, <<>> for zero *)

RECURSIVE BigOf(_)
BigOf(n) == IF n = 0 THEN <<>> ELSE <<n % 10000>> \o BigOf(n \div 10000)

RECURSIVE BigAddC(_, _, _)
BigAddC(x, y, c) ==
    IF x = <<>> /\ y = <<>> THEN BigOf(c)
    ELSE LET t == (IF x = <<>> THEN 0 ELSE x[1]) + (IF y = <<>> THEN 0 ELSE y[1]) + c
         IN <<t % 10000>> \o BigAddC(IF x = <<>> THEN <<>> ELSE Tail(x),
                                     IF y = <<>> THEN <<>> ELSE Tail(y), t \div 10000)

BigAdd(x, y) == BigAddC(x, y, 0)

RECURSIVE BigMulDigit(_, _, _)
\* x * k + c for a digit k # 0
BigMulDigit(x, k, c) ==
    IF x = <<>> THEN BigOf(c)
    ELSE LET t == x[1] * k + c IN <<t % 10000>> \o BigMulDigit(Tail(x), k, t \div 10000)

RECURSIVE BigMul(_, _)
BigMul(x, y) ==
    IF x = <<>> \/ y = <<>> THEN <<>>
    ELSE LET rest == BigMul(x, Tail(y))
             shifted == IF rest = <<>> THEN <<>> ELSE <<0>> \o rest
         IN BigAdd(IF y[1] = 0 THEN <<>> ELSE BigMulDigit(x, y[1], 0), shifted)

BigLt(x, y) ==
    IF Len(x) # Len(y) THEN Len(x) < Len(y)
    ELSE \E i \in 1..Len(x) : x[i] < y[i] /\ \A j \in (i + 1)..Len(x) : x[j] = y[j]

---------------------------------------------------------------------------
(* Text cells: sequences of characters; datetime cells: <<year, month, day>> *)

NA == <<"<NA>">>
NaT == <<0, 0, 0>>

\* code-point order of the characters the model uses
CharOrder == <<"\t", "\n", " ", "-">> \o
             <<"0","1","2","3","4","5","6","7","8","9">> \o
             UpperCase \o <<"_">> \o LowerCase

Ord(c) == CHOOSE i \in 1..Len(CharOrder) : CharOrder[i] = c

RECURSIVE StrLt(_, _)
\* s < t, as Python compares str
StrLt(s, t) ==
    IF t = <<>> THEN FALSE
    ELSE IF s = <<>> THEN TRUE
    ELSE IF s[1] # t[1] THEN Ord(s[1]) < Ord(t[1])
    ELSE StrLt(Tail(s), Tail(t))

DigitVal(c) == Ord(c) - 5

IsDigits(s) == \A i \in 1..Len(s) : s[i] \in Digits

RECURSIVE DigitsVal(_)
DigitsVal(s) ==
    IF s = <<>> THEN 0 ELSE 10 * DigitsVal(SubSeq(s, 1, Len(s) - 1)) + DigitVal(s[Len(s)])

DaysIn(y, m) ==
    IF m \in {4, 6, 9, 11} THEN 30
    ELSE IF m = 2 THEN (IF y % 4 = 0 /\ (y % 100 # 0 \/ y % 400 = 0) THEN 29 ELSE 28)
    ELSE 31

\* pd.to_datetime(s, errors="coerce") on one text cell, for the cells of the model:
\* an ISO date YYYY-MM-DD parses, a missing cell and any other text give NaT
to_datetime(s) ==
    IF s # NA /\ Len(s) = 10 /\ s[5] = "-" /\ s[8] = "-"
       /\ IsDigits(SubSeq(s, 1, 4)) /\ IsDigits(SubSeq(s, 6, 7)) /\ IsDigits(SubSeq(s, 9, 10))
    THEN LET y == DigitsVal(SubSeq(s, 1, 4))
             m == DigitsVal(SubSeq(s, 6, 7))
             d == DigitsVal(SubSeq(s, 9, 10))
         IN IF y >= 1 /\ m \in 1..12 /\ d >= 1 /\ d <= DaysIn(y, m) THEN <<y, m, d>> ELSE NaT
    ELSE NaT

---------------------------------------------------------------------------
(* dtypes *)

IntDtypes == {"int64", "int32", "int16", "int8"}
FloatDtypes == {"float64", "float32"}

\* select_dtypes(include=[np.number]): integers and floats, not bool
IsNumber(dtype) == dtype \in IntDtypes \cup FloatDtypes

\* pd.api.types.is_numeric_dtype: bool counts as numeric
is_numeric_dtype(dtype) == IsNumber(dtype) \/ dtype = "bool"

is_datetime64_any_dtype(dtype) == dtype = "datetime64"

\* Series.isna() on one cell
IsNA(dtype, v) ==
    IF IsNumber(dtype) THEN IsNaN(v)
    ELSE IF dtype = "datetime64" THEN v = NaT
    ELSE IF dtype = "object" THEN v = NA
    ELSE FALSE

\* the missing value a column of this dtype holds
Missing(dtype) ==
    IF IsNumber(dtype) THEN NaN ELSE IF dtype = "datetime64" THEN NaT ELSE NA

isna(col) == [i \in 1..Len(col.vals) |-> IsNA(col.dtype, col.vals[i])]

\* Series.isna().sum()
CountNA(col) == Cardinality({i \in 1..Len(col.vals) : IsNA(col.dtype, col.vals[i])})

\* Series.dropna() as a sequence of values, in row order
dropna(col) ==
    Take(col.vals, SelectIdx([i \in 1..Len(col.vals) |-> ~IsNA(col.dtype, col.vals[i])],
                             1, Len(col.vals)))

---------------------------------------------------------------------------
(* Column statistics *)

RECURSIVE RSum(_)
RSum(s) == IF s = <<>> THEN Num(0) ELSE RAdd(s[1], RSum(Tail(s)))

RECURSIVE InsertSorted(_, _)
InsertSorted(x, s) ==
    IF s = <<>> THEN <<x>>
    ELSE IF RLt(x, s[1]) THEN <<x>> \o s
    ELSE <<s[1]>> \o InsertSorted(x, Tail(s))

RECURSIVE RSort(_)
\* ascending sort of NaN-free numbers
RSort(s) == IF s = <<>> THEN <<>> ELSE InsertSorted(s[1], RSort(Tail(s)))

\* Series.mean(): NaN skipped; NaN for an empty series
mean(col) ==
    LET xs == dropna(col)
    IN IF xs = <<>> THEN NaN ELSE RDiv(RSum(xs), Num(Len(xs)))

\* Series.median(): NaN skipped; the mean of the two middle values for an even count
median(col) ==
    LET xs == RSort(dropna(col))
        n == Len(xs)
    IN IF n = 0 THEN NaN
       ELSE IF n % 2 = 1 THEN xs[(n + 1) \div 2]
       ELSE RDiv(RAdd(xs[n \div 2], xs[n \div 2 + 1]), Num(2))

\* numpy's _lerp(a, b, t)
Lerp(a, b, t) ==
    LET diff == RSub(b, a)
    IN IF RLt(t, <<1, 2>>) THEN RAdd(a, RMul(diff, t))
       ELSE RSub(b, RMul(diff, RSub(Num(1), t)))

\* Series.quantile(q), linear interpolation (numpy's default method), q = qn/qd
quantile(col, qn, qd) ==
    LET xs == RSort(dropna(col))
        n == Len(xs)
        prev == ((n - 1) * qn) \div qd
        next == IF prev + 1 > n - 1 THEN n - 1 ELSE prev + 1
        gamma == Rat((n - 1) * qn - prev * qd, qd)
    IN IF n = 0 THEN NaN ELSE Lerp(xs[prev + 1], xs[next + 1], gamma)

\* config.SKEWNESS_THRESHOLD
SKEWNESS_THRESHOLD == 1

\* config.IQR_MULTIPLIER
IQR_MULTIPLIER == <<3, 2>>

\* config.DATETIME_MISSING_DROP_PCT
DATETIME_MISSING_DROP_PCT == 5

RECURSIVE LcmDen(_)
\* the least common multiple of the denominators of finite numbers
LcmDen(xs) ==
    IF xs = <<>> THEN 1
    ELSE LET l == LcmDen(Tail(xs)) IN (l * xs[1][2]) \div Gcd(l, xs[1][2])

RECURSIVE IntSum(_)
IntSum(s) == IF s = <<>> THEN 0 ELSE s[1] + IntSum(Tail(s))

\* abs(Series.skew()) > t, with pandas' nanskew: the skewness is NaN below three
\* values (and with a non-finite value), 0 for a constant column, and otherwise
\* n*sqrt(n-1)/(n-2) * m3 / m2^1.5 over the sums m2, m3 of the squared and cubed
\* deviations.  Skewness does not change when every value is multiplied by the
\* same positive number, so the deviations are taken as integers d = n*L*x - sum.
SkewAbove(col, t) ==
    LET xs == dropna(col)
        n == Len(xs)
    IN IF n < 3 \/ \E i \in 1..n : ~IsFinite(xs[i]) THEN FALSE
       ELSE LET L == LcmDen(xs)
                ys == [i \in 1..n |-> xs[i][1] * (L \div xs[i][2])]
                S == IntSum(ys)
                d == [i \in 1..n |-> n * ys[i] - S]
                D2 == IntSum([i \in 1..n |-> d[i] * d[i]])
                D3 == Abs(IntSum([i \in 1..n |-> d[i] * d[i] * d[i]]))
                A == BigMul(BigOf(n * n * (n - 1)), BigMul(BigOf(D3), BigOf(D3)))
                B == BigMul(BigOf(t * t * (n - 2) * (n - 2)),
                            BigMul(BigOf(D2), BigMul(BigOf(D2), BigOf(D2))))
            \* n^2 (n-1) D3^2 > t^2 (n-2)^2 D2^3
            IN D2 # 0 /\ BigLt(B, A)

CountOf(xs, v) == Cardinality({i \in 1..Len(xs) : xs[i] = v})

\* Series.mode(): the most frequent non-missing values, sorted; <<>> when all are
\* missing.  Only its first element is used, so that is what is returned (in a
\* sequence of length at most one)
mode(col) ==
    LET xs == dropna(col)
        best == {v \in Range(xs) : \A w \in Range(xs) : CountOf(xs, w) <= CountOf(xs, v)}
    IN IF xs = <<>> THEN <<>>
       ELSE <<CHOOSE v \in best : \A w \in best : w = v \/ StrLt(v, w)>>

---------------------------------------------------------------------------
(* Tables *)

Col(name, dtype, vals) == [name |-> name, dtype |-> dtype, vals |-> vals]

ColNames(t) == [i \in 1..Len(t.cols) |-> t.cols[i].name]

HasCol(t, name) == \E i \in 1..Len(t.cols) : t.cols[i].name = name

ColIdx(t, name) == CHOOSE i \in 1..Len(t.cols) : t.cols[i].name = name

\* df[name] = values: replaces the column of that name where it stands, or appends
SetCol(t, c) ==
    IF HasCol(t, c.name)
    THEN [t EXCEPT !.cols = [i \in 1..Len(t.cols) |->
                                IF t.cols[i].name = c.name THEN c ELSE t.cols[i]]]
    ELSE [t EXCEPT !.cols = Append(t.cols, c)]

\* the rows at the given positions, re-indexed (reset_index(drop=True))
TakeRows(t, idx) ==
    [n |-> Len(idx),
     cols |-> [i \in 1..Len(t.cols) |-> [t.cols[i] EXCEPT !.vals = Take(t.cols[i].vals, idx)]]]

Row(t, r) == [i \in 1..Len(t.cols) |-> t.cols[i].vals[r]]

\* one line of the transformation log: the text of the f-string as its kind and
\* the values formatted into it
Entry(kind, cols, n, m) == [kind |-> kind, cols |-> cols, n |-> n, m |-> m]

\* the pipeline object: self.df, self.transformations, self.outlier_counts
Pipeline(t, log, oc) == [df |-> t, transformations |-> log, outlier_counts |-> oc]

\* ETLPipeline.__init__: the pipeline works on its own copy of the table
ETLPipeline(t) == Pipeline(t, <<>>, <<>>)

\* Table objects.  A name of the program that holds a table refers to an
\* object, and a step that changes a table in place changes it for every name
\* that refers to the same object.  The object the caller hands over:
CallerTable == <<"df">>

\* an assignment without copy(): the same object
copy_none(obj) == obj

\* DataFrame.copy(): a new object with the contents of obj
copy(obj) == Append(obj, "copy")

\* the object self.df refers to
SelfDf == copy(CallerTable)

---------------------------------------------------------------------------
(* Step 1: column name standardisation *)

\* the new name of one column: strip, lower, the two re.sub, strip("_")
standardize_name(col) ==
    Strip(SubRuns(SubNonClass(Lower(Strip(col, Whitespace)))), {"_"})

standardize_columns(s) ==
    LET t == s.df
        \* rename_map: the names that change
        rename_map == {c \in Range(ColNames(t)) : standardize_name(c) # c}
        renamed == [t EXCEPT !.cols = [i \in 1..Len(t.cols) |->
                       [t.cols[i] EXCEPT !.name = standardize_name(t.cols[i].name)]]]
    IN IF rename_map # {}
       THEN [s EXCEPT !.df = renamed,
                      !.transformations = Append(s.transformations,
                          Entry("standardized_column_names", <<>>, Cardinality(rename_map), 0))]
       ELSE s

---------------------------------------------------------------------------
(* Step 2: trim string fields *)

StrNan == <<"n", "a", "n">>
StrNone == <<"N", "o", "n", "e">>

\* astype(str).str.strip() and the replace of "nan", "None" and "" by NaN, on one cell
TrimCell(v) ==
    LET t == IF v = NA THEN StrNan ELSE Strip(v, Whitespace)
    IN IF t \in {StrNan, StrNone, <<>>} THEN NA ELSE t

trim_strings(s) ==
    LET t == s.df
        obj_cols == {i \in 1..Len(t.cols) : t.cols[i].dtype = "object"}
        trimmed == [t EXCEPT !.cols = [i \in 1..Len(t.cols) |->
                       IF i \in obj_cols
                       THEN [t.cols[i] EXCEPT !.vals =
                               [r \in 1..Len(t.cols[i].vals) |-> TrimCell(t.cols[i].vals[r])]]
                       ELSE t.cols[i]]]
    IN IF obj_cols # {}
       THEN [s EXCEPT !.df = trimmed,
                      !.transformations = Append(s.transformations,
                          Entry("trimmed_string_fields", <<>>, Cardinality(obj_cols), 0))]
       ELSE s

---------------------------------------------------------------------------
(* Step 3: remove duplicates *)

\* a drop_duplicates that keeps no row
FirstOccurrences_none(t) == <<>>

\* drop_duplicates(): the positions of the first occurrence of every row; a
\* table without columns is empty and is returned as it is
FirstOccurrences(t) ==
    IF t.cols = <<>> THEN [r \in 1..t.n |-> r]
    ELSE SelectIdx([r \in 1..t.n |-> ~\E q \in 1..(r - 1) : Row(t, q) = Row(t, r)], 1, t.n)

\* a remove_duplicates that logs whatever the count
LogsRemoved_always(removed) == removed >= 0

\* if removed > 0
LogsRemoved(removed) == removed > 0

remove_duplicates(s) ==
    LET t == s.df
        before_n == t.n
        kept == TakeRows(t, FirstOccurrences(t))
        removed == before_n - kept.n
    IN IF LogsRemoved(removed)
       THEN [s EXCEPT !.df = kept,
                      !.transformations = Append(s.transformations,
                          Entry("removed_duplicates", <<>>, removed, 0))]
       ELSE [s EXCEPT !.df = kept]

---------------------------------------------------------------------------
(* Step 4: missing values *)

\* a fill that is lost: the column stays as it was
fillna_lost(col, fill) == col

\* Series.fillna(fill): filling with NaN changes nothing
fillna(col, fill) ==
    [col EXCEPT !.vals = [r \in 1..Len(col.vals) |->
        IF IsNA(col.dtype, col.vals[r]) THEN fill ELSE col.vals[r]]]

RECURSIVE FFillVals(_, _, _)
FFillVals(vals, last, missing) ==
    IF vals = <<>> THEN <<>>
    ELSE LET v == IF vals[1] = missing THEN last ELSE vals[1]
         IN <<v>> \o FFillVals(Tail(vals), v, missing)

\* a forward fill that fills nothing
ffill_lost(col) == col

\* Series.ffill(): a leading run of missing values stays missing
ffill(col) == [col EXCEPT !.vals = FFillVals(col.vals, Missing(col.dtype), Missing(col.dtype))]

\* the body of the loop of handle_missing_values for the column at position k
FillColumn(s, k) ==
    LET t == s.df
        col == t.cols[k]
        missing == CountNA(col)
        put(c) == [t EXCEPT !.cols[k] = c]
    IN IF missing = 0 THEN s
       ELSE IF is_numeric_dtype(col.dtype)
       THEN LET skewed == SkewAbove(col, SKEWNESS_THRESHOLD)
                fill == IF skewed THEN median(col) ELSE mean(col)
                strategy == IF skewed THEN "filled_missing_with_median" ELSE "filled_missing_with_mean"
            IN [s EXCEPT !.df = put(fillna(col, fill)),
                         !.transformations = Append(s.transformations,
                             Entry(strategy, <<col.name>>, missing, 0))]
       ELSE IF is_datetime64_any_dtype(col.dtype)
       THEN IF missing * 100 < DATETIME_MISSING_DROP_PCT * t.n
            THEN [s EXCEPT !.df = TakeRows(t, SelectIdx([r \in 1..t.n |-> col.vals[r] # NaT], 1, t.n)),
                           !.transformations = Append(s.transformations,
                               Entry("dropped_missing_datetime", <<col.name>>, missing, t.n))]
            ELSE [s EXCEPT !.df = put(ffill(col)),
                           !.transformations = Append(s.transformations,
                               Entry("forward_filled_datetime", <<col.name>>, missing, 0))]
       ELSE LET mode_val == mode(col)
            IN IF mode_val # <<>>
               THEN [s EXCEPT !.df = put(fillna(col, mode_val[1])),
                              !.transformations = Append(s.transformations,
                                  Entry("filled_missing_with_mode", <<col.name>>, missing, 0))]
               ELSE s

RECURSIVE FillFrom(_, _)
FillFrom(s, k) == IF k > Len(s.df.cols) THEN s ELSE FillFrom(FillColumn(s, k), k + 1)

handle_missing_values(s) == FillFrom(s, 1)

---------------------------------------------------------------------------
(* Step 5: date-like text columns *)

\* head(50) of the sample
DATE_SAMPLE == 50

Head_n(xs, n) == IF Len(xs) <= n THEN xs ELSE SubSeq(xs, 1, n)

\* a test on every value of the column instead of the first DATE_SAMPLE
LooksLikeDates_whole(col) ==
    LET sample == dropna(col)
        parsed == Cardinality({i \in 1..Len(sample) : to_datetime(sample[i]) # NaT})
    IN sample # <<>> /\ 10 * parsed > 6 * Len(sample)

\* whether the column is converted: more than 0.6 of the sample parses
LooksLikeDates(col) ==
    LET sample == Head_n(dropna(col), DATE_SAMPLE)
        parsed == Cardinality({i \in 1..Len(sample) : to_datetime(sample[i]) # NaT})
    IN sample # <<>> /\ 10 * parsed > 6 * Len(sample)

convert_dates(s) ==
    LET t == s.df
        converted == SelectIdx([i \in 1..Len(t.cols) |->
                         t.cols[i].dtype = "object" /\ LooksLikeDates(t.cols[i])], 1, Len(t.cols))
        done == [t EXCEPT !.cols = [i \in 1..Len(t.cols) |->
                    IF i \in Range(converted)
                    THEN Col(t.cols[i].name, "datetime64",
                             [r \in 1..Len(t.cols[i].vals) |-> to_datetime(t.cols[i].vals[r])])
                    ELSE t.cols[i]]]
    IN IF converted # <<>>
       THEN [s EXCEPT !.df = done,
                      !.transformations = Append(s.transformations,
                          Entry("converted_to_datetime", Take(ColNames(t), converted), 0, 0))]
       ELSE s

---------------------------------------------------------------------------
(* Step 6: outlier detection (IQR) *)

IsOutlierPrefix == <<"i","s","_","o","u","t","l","i","e","r","_">>

\* outlier_counts[key] = val on a dict kept as a sequence of [col, n] in insertion order
DictSet(d, key, val) ==
    IF \E i \in 1..Len(d) : d[i].col = key
    THEN [i \in 1..Len(d) |-> IF d[i].col = key THEN [col |-> key, n |-> val] ELSE d[i]]
    ELSE Append(d, [col |-> key, n |-> val])

DictHas(d, key) == \E i \in 1..Len(d) : d[i].col = key

DictGet(d, key) == d[CHOOSE i \in 1..Len(d) : d[i].col = key].n

DictSum(d) == IntSum([i \in 1..Len(d) |-> d[i].n])

\* the bounds [lower, upper] of a column; iqr NaN gives NaN bounds
IqrOf(col) == RSub(quantile(col, 3, 4), quantile(col, 1, 4))

LowerBound(col) == RSub(quantile(col, 1, 4), RMul(IQR_MULTIPLIER, IqrOf(col)))

UpperBound(col) == RAdd(quantile(col, 3, 4), RMul(IQR_MULTIPLIER, IqrOf(col)))

\* (df[col] < lower) | (df[col] > upper), row by row
OutlierMask(col) ==
    [r \in 1..Len(col.vals) |->
        RLt(col.vals[r], LowerBound(col)) \/ RGt(col.vals[r], UpperBound(col))]

MaskCount(mask) == Cardinality({r \in DOMAIN mask : mask[r]})

\* a loop body that adds the flag column and the map entry whenever the IQR is
\* not 0, also when no row is outside the bounds
FlagColumn_always(s, name) ==
    LET col == s.df.cols[ColIdx(s.df, name)]
        mask == OutlierMask(col)
    IN IF REq(IqrOf(col), Num(0)) THEN s
       ELSE [s EXCEPT !.df = SetCol(s.df, Col(IsOutlierPrefix \o name, "int64",
                                 [r \in 1..Len(col.vals) |-> IF mask[r] THEN Num(1) ELSE Num(0)])),
                      !.outlier_counts = DictSet(s.outlier_counts, name, MaskCount(mask))]

\* the body of the loop of detect_outliers for the column called name
FlagColumn(s, name) ==
    LET col == s.df.cols[ColIdx(s.df, name)]
        mask == OutlierMask(col)
        count == MaskCount(mask)
    IN IF REq(IqrOf(col), Num(0)) THEN s
       ELSE IF count > 0
       THEN [s EXCEPT !.df = SetCol(s.df, Col(IsOutlierPrefix \o name, "int64",
                                 [r \in 1..Len(col.vals) |-> IF mask[r] THEN Num(1) ELSE Num(0)])),
                      !.outlier_counts = DictSet(s.outlier_counts, name, count)]
       ELSE s

RECURSIVE FlagAll(_, _)
FlagAll(s, names) == IF names = <<>> THEN s ELSE FlagAll(FlagColumn(s, names[1]), Tail(names))

detect_outliers(s) ==
    LET t == s.df
        num_cols == Take(ColNames(t),
                         SelectIdx([i \in 1..Len(t.cols) |-> IsNumber(t.cols[i].dtype)], 1, Len(t.cols)))
        f == FlagAll(s, num_cols)
    IN IF f.outlier_counts # <<>>
       THEN [f EXCEPT !.transformations = Append(f.transformations,
                Entry("detected_outliers", <<>>, DictSum(f.outlier_counts), Len(f.outlier_counts)))]
       ELSE f

---------------------------------------------------------------------------
(* Step 7: dtype optimisation *)

\* pd.to_numeric(downcast="integer"): the smallest integer width that holds every value
DowncastInt(col) ==
    LET fits(lo, hi) == \A r \in 1..Len(col.vals) : col.vals[r][1] >= lo /\ col.vals[r][1] <= hi
    IN IF fits(-128, 127) THEN "int8"
       ELSE IF fits(-32768, 32767) THEN "int16"
       ELSE "int32"

\* pd.to_numeric(downcast="float"): float32 (the values of the model are within the
\* tolerance pandas allows; NaN and the infinities are kept)
DowncastFloat(col) == "float32"

optimize_dtypes(s) ==
    LET t == s.df
        ints == [t EXCEPT !.cols = [i \in 1..Len(t.cols) |->
                    IF t.cols[i].dtype \in {"int64", "int32"}
                    THEN [t.cols[i] EXCEPT !.dtype = DowncastInt(t.cols[i])]
                    ELSE t.cols[i]]]
        floats == [ints EXCEPT !.cols = [i \in 1..Len(ints.cols) |->
                    IF ints.cols[i].dtype = "float64" /\ ~StartsWith(ints.cols[i].name, IsOutlierPrefix)
                    THEN [ints.cols[i] EXCEPT !.dtype = DowncastFloat(ints.cols[i])]
                    ELSE ints.cols[i]]]
    IN [s EXCEPT !.df = floats,
                 !.transformations = Append(s.transformations, Entry("optimized_dtypes", <<>>, 0, 0))]

---------------------------------------------------------------------------
(* Step 8: feature engineering *)

SufYear == <<"_","y","e","a","r">>
SufMonth == <<"_","m","o","n","t","h">>
SufDay == <<"_","d","a","y">>
StrPrice == <<"p","r","i","c","e">>
StrTotalPrice == <<"t","o","t","a","l","_","p","r","i","c","e">>
StrQuantity == <<"q","u","a","n","t","i","t","y">>
StrQty == <<"q","t","y">>
StrPricePerUnit == <<"p","r","i","c","e","_","p","e","r","_","u","n","i","t">>

\* Series.dt.year / .month / .day (part = 1, 2, 3): integers, or floats with NaN
\* where the date is missing
DatePart(col, part, suffix) ==
    Col(col.name \o suffix,
        IF \E r \in 1..Len(col.vals) : col.vals[r] = NaT THEN "float64" ELSE "int32",
        [r \in 1..Len(col.vals) |-> IF col.vals[r] = NaT THEN NaN ELSE Num(col.vals[r][part])])

\* the body of the first loop of feature_engineering for the datetime column called name
ExtractParts(s, name) ==
    LET col == s.df.cols[ColIdx(s.df, name)]
        y == SetCol(s.df, DatePart(col, 1, SufYear))
        m == SetCol(y, DatePart(col, 2, SufMonth))
        d == SetCol(m, DatePart(col, 3, SufDay))
    IN [s EXCEPT !.df = d,
                 !.transformations = Append(s.transformations,
                     Entry("extracted_date_parts", <<name>>, 0, 0))]

RECURSIVE ExtractAll(_, _)
ExtractAll(s, names) ==
    IF names = <<>> THEN s ELSE ExtractAll(ExtractParts(s, names[1]), Tail(names))

\* cols_lower.get(key): the last column whose lowercased name is key, "" for none
\* (None and "" are both false in the tests that follow)
ColsLowerGet(t, key) ==
    LET hits == {i \in 1..Len(t.cols) : Lower(t.cols[i].name) = key}
    IN IF hits = {} THEN <<>> ELSE t.cols[CHOOSE i \in hits : \A j \in hits : j <= i].name

\* a or b
Or(a, b) == IF a # <<>> THEN a ELSE b

\* a price_per_unit that divides the quantity by the price
PricePerUnit_inverted(t, price, qty) ==
    Col(StrPricePerUnit, "float64",
        [r \in 1..t.n |-> IF ~REq(qty.vals[r], Num(0))
                          THEN RDiv(qty.vals[r], price.vals[r]) ELSE NaN])

\* df.loc[mask, "price_per_unit"] = price[mask] / qty[mask]: a missing column is
\* created, all NaN, before the rows of the mask are set
PricePerUnit(t, price, qty) ==
    LET old == IF HasCol(t, StrPricePerUnit) THEN t.cols[ColIdx(t, StrPricePerUnit)]
               ELSE Col(StrPricePerUnit, "float64", [r \in 1..t.n |-> NaN])
        mask == [r \in 1..t.n |-> ~REq(qty.vals[r], Num(0))]
    IN Col(StrPricePerUnit, "float64",
           [r \in 1..t.n |-> IF mask[r] THEN RDiv(price.vals[r], qty.vals[r]) ELSE old.vals[r]])

feature_engineering(s) ==
    LET t0 == s.df
        dt_cols == Take(ColNames(t0),
                        SelectIdx([i \in 1..Len(t0.cols) |-> t0.cols[i].dtype = "datetime64"],
                                  1, Len(t0.cols)))
        e == ExtractAll(s, dt_cols)
        t == e.df
        price_col == Or(ColsLowerGet(t, StrPrice), ColsLowerGet(t, StrTotalPrice))
        qty_col == Or(ColsLowerGet(t, StrQuantity), ColsLowerGet(t, StrQty))
    IN IF price_col # <<>> /\ qty_col # <<>>
          /\ is_numeric_dtype(t.cols[ColIdx(t, price_col)].dtype)
          /\ is_numeric_dtype(t.cols[ColIdx(t, qty_col)].dtype)
       THEN [e EXCEPT !.df = SetCol(t, PricePerUnit(t, t.cols[ColIdx(t, price_col)],
                                                       t.cols[ColIdx(t, qty_col)])),
                      !.transformations = Append(e.transformations,
                          Entry("created_price_per_unit", <<>>, 0, 0))]
       ELSE e

---------------------------------------------------------------------------
(* Step 9: final validation *)

\* np.isinf(...).sum().sum() over the numeric columns
InfCount(t) ==
    IntSum([i \in 1..Len(t.cols) |->
        IF IsNumber(t.cols[i].dtype)
        THEN Cardinality({r \in 1..Len(t.cols[i].vals) : IsInf(t.cols[i].vals[r])})
        ELSE 0])

\* df.replace([inf, -inf], nan)
ReplaceInf(t) ==
    [t EXCEPT !.cols = [i \in 1..Len(t.cols) |->
        IF IsNumber(t.cols[i].dtype)
        THEN [t.cols[i] EXCEPT !.vals = [r \in 1..Len(t.cols[i].vals) |->
                 IF IsInf(t.cols[i].vals[r]) THEN NaN ELSE t.cols[i].vals[r]]]
        ELSE t.cols[i]]]

\* df[c].isna().all()
\* a validate_output that finds no column entirely null
AllNull_never(col) == FALSE

\* self.df[c].isna().all()
AllNull(col) == \A r \in 1..Len(col.vals) : IsNA(col.dtype, col.vals[r])

validate_output(s) ==
    LET inf_count == InfCount(s.df)
        a == IF inf_count > 0
             THEN [s EXCEPT !.df = ReplaceInf(s.df),
                            !.transformations = Append(s.transformations,
                                Entry("replaced_infinities", <<>>, inf_count, 0))]
             ELSE s
        null_cols == SelectIdx([i \in 1..Len(a.df.cols) |-> AllNull(a.df.cols[i])],
                               1, Len(a.df.cols))
        keep == SelectIdx([i \in 1..Len(a.df.cols) |-> ~AllNull(a.df.cols[i])],
                          1, Len(a.df.cols))
    IN IF null_cols # <<>>
       THEN [a EXCEPT !.df = [a.df EXCEPT !.cols = Take(a.df.cols, keep)],
                      !.transformations = Append(a.transformations,
                          Entry("dropped_all_null_columns", Take(ColNames(a.df), null_cols), 0, 0))]
       ELSE a

\* ETLPipeline.get_summary (the memory figure is not modelled)
get_summary(s) ==
    [transformations_applied |-> s.transformations,
     outliers_detected |-> s.outlier_counts,
     rows_after |-> s.df.n,
     columns_after |-> Len(s.df.cols)]

---------------------------------------------------------------------------
(* The insight engine *)

\* config.CORRELATION_SIGNIFICANCE
CORRELATION_SIGNIFICANCE == <<1, 20>>

\* the integer nearest to n/d (d > 0), a tie going to the even one
RoundHalfEven(n, d) ==
    LET q == n \div d
        r == n % d
    IN IF 2 * r < d THEN q
       ELSE IF 2 * r > d THEN q + 1
       ELSE IF q % 2 = 0 THEN q ELSE q + 1

\* round(x, ndigits) with scale = 10^ndigits; NaN and the infinities stay
round(x, scale) ==
    IF ~IsFinite(x) THEN x ELSE Rat(RoundHalfEven(x[1] * scale, x[2]), scale)

\* the group classify_columns puts a column in
KindOf(col) ==
    IF StartsWith(col.name, IsOutlierPrefix) THEN "skipped"
    ELSE IF is_datetime64_any_dtype(col.dtype) THEN "datetime"
    ELSE IF is_numeric_dtype(col.dtype) THEN "numeric"
    ELSE "categorical"

ColsOfKind(t, kind) ==
    Take(ColNames(t),
         SelectIdx([i \in 1..Len(t.cols) |-> KindOf(t.cols[i]) = kind], 1, Len(t.cols)))

classify_columns(t) ==
    [numeric |-> ColsOfKind(t, "numeric"),
     categorical |-> ColsOfKind(t, "categorical"),
     datetime |-> ColsOfKind(t, "datetime")]

\* a record whose missing_pct is taken over the rows left after the drop
StatRecord_postdrop(t, name) ==
    LET col == t.cols[ColIdx(t, name)]
        xs == RSort(dropna(col))
    IN [column |-> name,
        count |-> Len(xs),
        mean |-> round(mean(col), 10000),
        median |-> round(median(col), 10000),
        min |-> round(xs[1], 10000),
        max |-> round(xs[Len(xs)], 10000),
        missing_pct |-> round(RMul(RDiv(Num(CountNA(col)), Num(Len(xs))), Num(100)), 100)]

\* one record of descriptive_stats (std, skewness and kurtosis are left out)
StatRecord(t, name) ==
    LET col == t.cols[ColIdx(t, name)]
        xs == RSort(dropna(col))
    IN [column |-> name,
        count |-> Len(xs),
        mean |-> round(mean(col), 10000),
        median |-> round(median(col), 10000),
        min |-> round(xs[1], 10000),
        max |-> round(xs[Len(xs)], 10000),
        missing_pct |-> round(RMul(RDiv(Num(CountNA(col)), Num(t.n)), Num(100)), 100)]

RECURSIVE descriptive_stats(_, _)
descriptive_stats(t, numeric_cols) ==
    IF numeric_cols = <<>> THEN <<>>
    ELSE LET rest == descriptive_stats(t, Tail(numeric_cols))
         IN IF dropna(t.cols[ColIdx(t, numeric_cols[1])]) = <<>> THEN rest
            ELSE <<StatRecord(t, numeric_cols[1])>> \o rest

\* df[names].dropna(): the rows without a missing value in any of the columns
CompleteRows(t, names) ==
    SelectIdx([r \in 1..t.n |->
                  \A k \in 1..Len(names) :
                      LET col == t.cols[ColIdx(t, names[k])] IN ~IsNA(col.dtype, col.vals[r])],
              1, t.n)

\* the values of the column on these rows
ValsOn(t, name, rows) == Take(t.cols[ColIdx(t, name)].vals, rows)

\* finite numbers as integers over their common denominator
Scaled(xs) == LET L == LcmDen(xs) IN [i \in 1..Len(xs) |-> xs[i][1] * (L \div xs[i][2])]

\* the sums of Pearson's r = num / sqrt(dx * dy) over two series of equal length
PearsonSums(xs, ys) ==
    LET n == Len(xs)
        X == Scaled(xs)
        Y == Scaled(ys)
        Sx == IntSum(X)
        Sy == IntSum(Y)
    IN [n |-> n,
        num |-> n * IntSum([i \in 1..n |-> X[i] * Y[i]]) - Sx * Sy,
        dx |-> n * IntSum([i \in 1..n |-> X[i] * X[i]]) - Sx * Sx,
        dy |-> n * IntSum([i \in 1..n |-> Y[i] * Y[i]]) - Sy * Sy]

\* 4 * 10^8 * num^2 and dx * dy: 10^4 * |r| >= k - 1/2 exactly when
\* (2k - 1)^2 * dx * dy <= 4 * 10^8 * num^2
ScaledNumSq(ps) == BigMul(BigOf(400000000), BigMul(BigOf(Abs(ps.num)), BigOf(Abs(ps.num))))
DenProduct(ps) == BigMul(BigOf(ps.dx), BigOf(ps.dy))

RECURSIVE NearestTenThousandth(_, _, _, _)
\* the largest k in lo..hi with (2k - 1)^2 * dd <= nn (lo when there is none above it)
NearestTenThousandth(nn, dd, lo, hi) ==
    IF lo = hi THEN lo
    ELSE LET mid == (lo + hi + 1) \div 2
         IN IF ~BigLt(nn, BigMul(BigOf((2 * mid - 1) * (2 * mid - 1)), dd))
            THEN NearestTenThousandth(nn, dd, mid, hi)
            ELSE NearestTenThousandth(nn, dd, lo, mid - 1)

\* Pearson's r rounded to four places; NaN when a series is constant or the
\* series hold fewer than two values.  10^4 * |r| = k - 1/2 exactly is a tie and
\* goes to the even neighbour.
Corr4(ps) ==
    IF ps.dx = 0 \/ ps.dy = 0 THEN NaN
    ELSE LET nn == ScaledNumSq(ps)
             dd == DenProduct(ps)
             k == NearestTenThousandth(nn, dd, 0, 10000)
             tie == k > 0 /\ nn = BigMul(BigOf((2 * k - 1) * (2 * k - 1)), dd)
             m == IF tie /\ k % 2 = 1 THEN k - 1 ELSE k
         IN Rat(Sign(ps.num) * m, 10000)

\* the square of the |r| at which the two-sided p-value of pearsonr over n
\* values is 0.05, to nine places; exactly 0.95^2 for n = 4, where p = 1 - |r|
RCritSq(n) ==
    CASE n = 3 -> <<993844170, 1000000000>>
      [] n = 4 -> <<361, 400>>
      [] n = 5 -> <<771480186, 1000000000>>
      [] n = 6 -> <<658372154, 1000000000>>
      [] n = 7 -> <<569258532, 1000000000>>
      [] n = 8 -> <<499473513, 1000000000>>
      [] n = 9 -> <<444067109, 1000000000>>
      [] n = 10 -> <<399293648, 1000000000>>
      [] n = 11 -> <<362486813, 1000000000>>
      [] n = 12 -> <<331756401, 1000000000>>

\* pearsonr(x, y): "raises" below two values; otherwise whether its p-value is
\* below CORRELATION_SIGNIFICANCE = 0.05.  The p-value is NaN for a constant
\* series, 1 for two values, and for three to twelve values below 0.05 exactly
\* when r^2 is above RCritSq(n).
pearsonr(xs, ys) ==
    LET ps == PearsonSums(xs, ys)
    IN IF ps.n < 2 THEN "raises"
       ELSE IF ps.dx = 0 \/ ps.dy = 0 \/ ps.n = 2 THEN "not_below"
       ELSE IF BigLt(BigMul(BigOf(RCritSq(ps.n)[1]), BigMul(BigOf(ps.dx), BigOf(ps.dy))),
                     BigMul(BigOf(RCritSq(ps.n)[2]), BigMul(BigOf(Abs(ps.num)), BigOf(Abs(ps.num)))))
            THEN "below"
       ELSE "not_below"

\* the pairs (i, j), i < j, of the numeric columns in the order of the two loops
RECURSIVE PairsFrom(_, _, _)
PairsFrom(i, j, n) ==
    IF i >= n THEN <<>>
    ELSE IF j > n THEN PairsFrom(i + 1, i + 2, n)
    ELSE <<<<i, j>>>> \o PairsFrom(i, j + 1, n)

RECURSIVE SignificantFrom(_, _, _, _)
\* the loop body of correlation_matrix over the remaining pairs
SignificantFrom(t, numeric_cols, rows, pairs) ==
    IF pairs = <<>> THEN <<>>
    ELSE LET c1 == numeric_cols[pairs[1][1]]
             c2 == numeric_cols[pairs[1][2]]
             xs == ValsOn(t, c1, rows)
             ys == ValsOn(t, c2, rows)
             rest == SignificantFrom(t, numeric_cols, rows, Tail(pairs))
         IN IF pearsonr(xs, ys) = "below"
            THEN <<[col1 |-> c1, col2 |-> c2, correlation |-> Corr4(PearsonSums(xs, ys))]>> \o rest
            ELSE rest

RECURSIVE InsertByAbs(_, _)
\* x, which came before every pair of `sorted`, goes before its equals
InsertByAbs(x, sorted) ==
    IF sorted = <<>> THEN <<x>>
    ELSE IF ~RGt(RAbs(sorted[1].correlation), RAbs(x.correlation)) THEN <<x>> \o sorted
    ELSE <<sorted[1]>> \o InsertByAbs(x, Tail(sorted))

\* a correlation_matrix that leaves the pairs in the order of the loops
SortByAbs_unsorted(pairs) == pairs

RECURSIVE SortByAbs(_)
\* significant.sort(key=abs(correlation), reverse=True): stable
SortByAbs(pairs) ==
    IF pairs = <<>> THEN <<>>
    ELSE InsertByAbs(pairs[1], SortByAbs(Tail(pairs)))

correlation_matrix(t, numeric_cols) ==
    IF Len(numeric_cols) < 2 THEN [matrix |-> <<>>, significant_pairs |-> <<>>]
    ELSE LET rows == CompleteRows(t, numeric_cols)
         IN [matrix |->
                [c1 \in Range(numeric_cols) |->
                    [c2 \in Range(numeric_cols) |->
                        Corr4(PearsonSums(ValsOn(t, c1, rows), ValsOn(t, c2, rows)))]],
             significant_pairs |->
                SortByAbs(SignificantFrom(t, numeric_cols, rows,
                                          PairsFrom(1, 2, Len(numeric_cols))))]

\* int(math.sqrt(n))
ISqrt(n) == CHOOSE k \in 0..n : k * k <= n /\ (k + 1) * (k + 1) > n

Min(a, b) == IF a < b THEN a ELSE b
Max(a, b) == IF a > b THEN a ELSE b

\* config.TOP_N_CATEGORIES
TOP_N_CATEGORIES == 10

\* config.MAX_PIE_CATEGORIES
MAX_PIE_CATEGORIES == 7

\* a chart: its type, the columns it draws and the number of its points; the
\* labels, values and colours of the Chart.js configuration are left out
Chart(chart_type, cols, points) == [chart_type |-> chart_type, cols |-> cols, points |-> points]

\* the length above which a line chart is subsampled
LINE_MAX_POINTS == 200

\* the number of labels, and of values, of a series of n rows: every step-th
\* row from the first on when n is above LINE_MAX_POINTS
LinePoints(n) ==
    LET step == n \div LINE_MAX_POINTS
    IN IF n > LINE_MAX_POINTS THEN (n + step - 1) \div step ELSE n

\* "<num_col> over time" for one datetime and one numeric column
LineChart(t, dt_col, num_col) ==
    LET n == Len(CompleteRows(t, <<dt_col, num_col>>))
    IN IF n < 2 THEN <<>>
       ELSE <<Chart("line", <<dt_col, num_col>>, LinePoints(n))>>

\* "Average <num_col> by <cat_col>": the groups with a mean, the ten largest
GroupChart(t, cat_col, num_col) ==
    LET cat == t.cols[ColIdx(t, cat_col)]
        num == t.cols[ColIdx(t, num_col)]
        groups == {cat.vals[r] : r \in {q \in 1..t.n : ~IsNA(cat.dtype, cat.vals[q])
                                                      /\ ~IsNA(num.dtype, num.vals[q])}}
    IN IF groups = {} THEN <<>>
       ELSE <<Chart("bar", <<cat_col, num_col>>, Min(Cardinality(groups), TOP_N_CATEGORIES))>>

\* "Distribution of <cat_col>"
PieChart(t, cat_col) ==
    LET cat == t.cols[ColIdx(t, cat_col)]
        vc == Min(Cardinality(Range(dropna(cat))), MAX_PIE_CATEGORIES)
    IN IF vc = 0 THEN <<>>
       ELSE <<Chart(IF vc <= MAX_PIE_CATEGORIES THEN "pie" ELSE "bar", <<cat_col>>, vc)>>

\* "Distribution of <num_col>": a histogram
HistChart(t, num_col) ==
    LET n == Len(dropna(t.cols[ColIdx(t, num_col)]))
    IN IF n < 2 THEN <<>>
       ELSE <<Chart("bar", <<num_col>>, Min(30, Max(5, ISqrt(n))))>>

ScatterChart(t, pair) ==
    <<Chart("scatter", <<pair.col1, pair.col2>>,
            Min(500, Len(CompleteRows(t, <<pair.col1, pair.col2>>))))>>

RECURSIVE Concat(_)
Concat(ss) == IF ss = <<>> THEN <<>> ELSE ss[1] \o Concat(Tail(ss))

auto_select_charts(t, col_types, corr_data) ==
    LET numeric == col_types.numeric
        categorical == col_types.categorical
        datetime_cols == col_types.datetime
        num3 == Head_n(numeric, 3)
        num2 == Head_n(numeric, 2)
        cat3 == Head_n(categorical, 3)
        pairs3 == Head_n(corr_data.significant_pairs, 3)
    IN Concat([i \in 1..Len(datetime_cols) |->
                  Concat([j \in 1..Len(num3) |-> LineChart(t, datetime_cols[i], num3[j])])])
       \o Concat([i \in 1..Len(cat3) |->
                  Concat([j \in 1..Len(num2) |-> GroupChart(t, cat3[i], num2[j])])])
       \o Concat([i \in 1..Len(cat3) |-> PieChart(t, cat3[i])])
       \o Concat([i \in 1..Len(Head_n(numeric, 4)) |-> HistChart(t, numeric[i])])
       \o Concat([i \in 1..Len(pairs3) |-> ScatterChart(t, pairs3[i])])
       \o (IF Len(numeric) >= 2 /\ DOMAIN corr_data.matrix # {}
           THEN <<Chart("heatmap", numeric, Len(numeric))>> ELSE <<>>)

\* the different values of xs in the order of their first appearance
FirstSeen(xs) ==
    Take(xs, SelectIdx([i \in 1..Len(xs) |-> \A j \in 1..(i - 1) : xs[j] # xs[i]], 1, Len(xs)))

\* x put behind every entry of sorted whose count is not smaller
RECURSIVE InsertByCount(_, _)
InsertByCount(sorted, x) ==
    IF sorted = <<>> THEN <<x>>
    ELSE IF sorted[1].count >= x.count THEN <<sorted[1]>> \o InsertByCount(Tail(sorted), x)
    ELSE <<x>> \o sorted

RECURSIVE SortByCount(_)
SortByCount(entries) ==
    IF entries = <<>> THEN <<>>
    ELSE InsertByCount(SortByCount(SubSeq(entries, 1, Len(entries) - 1)), entries[Len(entries)])

\* Series.value_counts(): the non-missing values with their counts, the largest
\* count first, values of one count in the order of their first appearance
value_counts(col) ==
    LET xs == dropna(col)
        seen == FirstSeen(xs)
    IN SortByCount([i \in 1..Len(seen) |-> [value |-> seen[i], count |-> CountOf(xs, seen[i])]])

\* a total that counts the missing rows too
FreqTotal_rows(col) == Len(col.vals)

\* total = int(df[col].notna().sum())
FreqTotal(col) == Len(dropna(col))

\* the frequency table of one categorical column
FreqRecord(t, name) ==
    LET col == t.cols[ColIdx(t, name)]
        vc == Head_n(value_counts(col), TOP_N_CATEGORIES)
        total == FreqTotal(col)
    IN [column |-> name,
        values |-> [i \in 1..Len(vc) |-> vc[i].value],
        counts |-> [i \in 1..Len(vc) |-> vc[i].count],
        percentages |-> [i \in 1..Len(vc) |->
                            IF total # 0 THEN round(Rat(vc[i].count * 100, total), 10)
                            ELSE Num(0)],
        unique_count |-> Cardinality(Range(dropna(col)))]

frequency_tables(t, categorical_cols) ==
    [i \in 1..Len(categorical_cols) |-> FreqRecord(t, categorical_cols[i])]

---------------------------------------------------------------------------
(* The narrative: generate_nlg_insights.  A sentence is the group it belongs
   to, the columns it names, the words its template chooses, the numbers it
   prints (as its format rounds them) and the value it quotes. *)

Sentence(group, cols, words, numbers, value) ==
    [group |-> group, cols |-> cols, words |-> words, numbers |-> numbers, value |-> value]

\* f"{x:,.2f}"
Fmt2(x) == round(x, 100)

\* f"{x:.1f}"
Fmt1(x) == round(x, 10)

\* the tests on s["skewness"] = round(Series.skew(), 4): "right" when it is
\* above 1, "left" when it is below -1, "" otherwise (NaN below three values
\* and with a non-finite value, 0 for a constant column).  The rounded
\* skewness is beyond 1 exactly when the skewness is beyond 1.00005 =
\* 20001/20000; with the sums of SkewAbove that is
\* 20000^2 n^2 (n-1) D3^2 > 20001^2 (n-2)^2 D2^3.
SkewDirection(col) ==
    LET xs == dropna(col)
        n == Len(xs)
    IN IF n < 3 \/ \E i \in 1..n : ~IsFinite(xs[i]) THEN ""
       ELSE LET L == LcmDen(xs)
                ys == [i \in 1..n |-> xs[i][1] * (L \div xs[i][2])]
                S == IntSum(ys)
                d == [i \in 1..n |-> n * ys[i] - S]
                D2 == IntSum([i \in 1..n |-> d[i] * d[i]])
                D3 == IntSum([i \in 1..n |-> d[i] * d[i] * d[i]])
                A == BigMul(BigMul(BigOf(20000 * 20000), BigOf(n * n * (n - 1))),
                            BigMul(BigOf(Abs(D3)), BigOf(Abs(D3))))
                B == BigMul(BigMul(BigOf(20001 * 20001), BigOf((n - 2) * (n - 2))),
                            BigMul(BigOf(D2), BigMul(BigOf(D2), BigOf(D2))))
            IN IF D2 # 0 /\ BigLt(B, A) THEN (IF D3 > 0 THEN "right" ELSE "left")
               ELSE ""

RECURSIVE RangeSentences(_, _)
\* the loop over stats_data: a range sentence, and a skew sentence after it
\* when abs(s["skewness"]) > 1
RangeSentences(t, stats_data) ==
    IF stats_data = <<>> THEN <<>>
    ELSE LET s == stats_data[1]
             direction == SkewDirection(t.cols[ColIdx(t, s.column)])
         IN <<Sentence("range", <<s.column>>, <<>>,
                       <<Fmt2(s.min), Fmt2(s.max), Fmt2(s.mean), Fmt2(s.median)>>, <<>>)>>
            \o (IF direction # ""
                THEN <<Sentence("skew", <<s.column>>, <<direction>>, <<>>, <<>>)>>
                ELSE <<>>)
            \o RangeSentences(t, Tail(stats_data))

RECURSIVE KeepMax(_, _, _)
\* max() over the rest with `best` in hand: a later record replaces it when its
\* key is greater (or, with later_wins, when it is not smaller)
KeepMax(best, rest, later_wins) ==
    IF rest = <<>> THEN best
    ELSE IF RGt(rest[1].max, best.max) \/ (later_wins /\ ~RLt(rest[1].max, best.max))
         THEN KeepMax(rest[1], Tail(rest), later_wins)
    ELSE KeepMax(best, Tail(rest), later_wins)

\* a max() that returns the last of the records with the largest key
max_col_last(stats_data) == KeepMax(stats_data[1], Tail(stats_data), TRUE)

\* max(stats_data, key=lambda x: x["max"]): the first record with the largest key
max_col(stats_data) == KeepMax(stats_data[1], Tail(stats_data), FALSE)

MaxSentences(stats_data) ==
    IF stats_data = <<>> THEN <<>>
    ELSE LET m == max_col(stats_data)
         IN <<Sentence("max", <<m.column>>, <<>>, <<Fmt2(m.max)>>, <<>>)>>

\* the p-value is not modelled as a number and is left out of the sentence
CorrelationSentences(corr_data) ==
    LET sig_pairs == corr_data.significant_pairs
    IN IF sig_pairs = <<>> THEN <<>>
       ELSE LET top == sig_pairs[1]
                strength == IF RGt(RAbs(top.correlation), <<7, 10>>) THEN "strong"
                            ELSE "moderate"
                direction == IF RGt(top.correlation, Num(0)) THEN "positive" ELSE "negative"
            IN <<Sentence("correlation", <<top.col1, top.col2>>, <<strength, direction>>,
                          <<Fmt2(top.correlation)>>, <<>>)>>

RECURSIVE CategorySentences(_)
CategorySentences(freq_data) ==
    IF freq_data = <<>> THEN <<>>
    ELSE LET freq == freq_data[1]
         IN (IF freq.values # <<>> /\ freq.percentages # <<>>
             THEN <<Sentence("category", <<freq.column>>, <<>>,
                             <<Fmt1(freq.percentages[1]), Num(freq.unique_count)>>,
                             freq.values[1])>>
             ELSE <<>>)
            \o CategorySentences(Tail(freq_data))

\* one pass of the inner loop: a trend sentence when ten or more rows hold both
\* the date and the number.  linregress over x = 0, 1, ..., len - 1 does not
\* raise; the direction and R^2 it gives are left out of the sentence.
TrendSentence(t, dt_col, num_col) ==
    IF Len(CompleteRows(t, <<dt_col, num_col>>)) < 10 THEN <<>>
    ELSE <<Sentence("trend", <<num_col, dt_col>>, <<>>, <<>>, <<>>)>>

TrendSentences(t, col_types) ==
    Concat([i \in 1..Len(col_types.datetime) |->
               Concat([j \in 1..Min(2, Len(col_types.numeric)) |->
                          TrendSentence(t, col_types.datetime[i], col_types.numeric[j])])])

generate_nlg_insights(t, col_types, stats_data, corr_data, freq_data) ==
    <<Sentence("overview", <<>>, <<>>,
               <<Num(t.n), Num(Len(t.cols)), Num(Len(col_types.numeric)),
                 Num(Len(col_types.categorical)), Num(Len(col_types.datetime))>>, <<>>)>>
    \o RangeSentences(t, stats_data)
    \o MaxSentences(stats_data)
    \o CorrelationSentences(corr_data)
    \o CategorySentences(freq_data)
    \o TrendSentences(t, col_types)

---------------------------------------------------------------------------
(* The main entry point *)

\* distributions are left out
generate_full_insights(t) ==
    LET col_types == classify_columns(t)
        stats == descriptive_stats(t, col_types.numeric)
        corr == correlation_matrix(t, col_types.numeric)
        freq == frequency_tables(t, col_types.categorical)
        charts == auto_select_charts(t, col_types, corr)
    IN [column_types |-> col_types,
        descriptive_stats |-> stats,
        correlation |-> corr,
        frequency_tables |-> freq,
        charts |-> charts,
        insights |-> generate_nlg_insights(t, col_types, stats, corr, freq),
        summary |-> [total_rows |-> t.n,
                     total_columns |-> Len(t.cols),
                     numeric_columns |-> Len(col_types.numeric),
                     categorical_columns |-> Len(col_types.categorical),
                     datetime_columns |-> Len(col_types.datetime)]]

---------------------------------------------------------------------------
(* Stored files: DataFrame.to_csv and load_csv.  A file is its header and its
   rows of fields; quoting and the delimiter are left out.  A field is its text,
   except the field of a float, which is kept as the number its decimal text
   denotes *)

TextField(chars) == [float |-> FALSE, chars |-> chars, value |-> NaN]
FloatField(v) == [float |-> TRUE, chars |-> <<>>, value |-> v]

CsvFile(header, rows) == [header |-> header, rows |-> rows]

DigitSeq == <<"0", "1", "2", "3", "4", "5", "6", "7", "8", "9">>

\* the decimal digits of a natural number
RECURSIVE FormatNat(_)
FormatNat(k) ==
    IF k < 10 THEN <<DigitSeq[k + 1]>> ELSE FormatNat(k \div 10) \o <<DigitSeq[(k % 10) + 1]>>

FormatInt(k) == IF k < 0 THEN <<"-">> \o FormatNat(-k) ELSE FormatNat(k)

\* the digits of k, with zeros in front up to the width
RECURSIVE ZeroPad(_, _)
ZeroPad(chars, width) == IF Len(chars) >= width THEN chars ELSE ZeroPad(<<"0">> \o chars, width)

\* a date without a time of day is written as YYYY-MM-DD
FormatDate(d) ==
    ZeroPad(FormatNat(d[1]), 4) \o <<"-">> \o ZeroPad(FormatNat(d[2]), 2)
        \o <<"-">> \o ZeroPad(FormatNat(d[3]), 2)

\* the field to_csv writes for one cell: nothing for a missing value
FormatCell(dtype, v) ==
    IF IsNA(dtype, v) THEN TextField(<<>>)
    ELSE IF dtype = "datetime64" THEN TextField(FormatDate(v))
    ELSE IF dtype \in IntDtypes THEN TextField(FormatInt(v[1]))
    ELSE IF dtype \in FloatDtypes THEN FloatField(v)
    ELSE TextField(v)

\* cleaned.to_csv(path, index=False)
to_csv(t) ==
    CsvFile(ColNames(t),
            [r \in 1..t.n |-> [i \in 1..Len(t.cols) |-> FormatCell(t.cols[i].dtype, t.cols[i].vals[r])]])

\* some of the texts read_csv reads as a missing value
NaStrings ==
    {<<>>, <<"N","A">>, <<"N","/","A">>, <<"n","/","a">>, <<"N","a","N">>, <<"n","a","n">>,
     <<"N","U","L","L">>, <<"n","u","l","l">>, <<"N","o","n","e">>, <<"<","N","A",">">>}

IsNaField(f) == ~f.float /\ f.chars \in NaStrings

IsIntField(f) ==
    /\ ~f.float
    /\ f.chars # <<>>
    /\ LET digits == IF f.chars[1] = "-" THEN Tail(f.chars) ELSE f.chars
       IN digits # <<>> /\ IsDigits(digits)

ParseInt(chars) ==
    IF chars[1] = "-" THEN Num(-DigitsVal(Tail(chars))) ELSE Num(DigitsVal(chars))

\* the column read_csv makes of the fields of one column: integers when every
\* field is one, floats when every field is a number or missing, text otherwise
ReadColumn(name, fields) ==
    LET n == Len(fields)
        numeric == \A r \in 1..n : IsNaField(fields[r]) \/ IsIntField(fields[r]) \/ fields[r].float
        whole == \A r \in 1..n : IsIntField(fields[r])
    IN IF n = 0 THEN Col(name, "object", <<>>)
       ELSE IF whole THEN Col(name, "int64", [r \in 1..n |-> ParseInt(fields[r].chars)])
       ELSE IF numeric
            THEN Col(name, "float64",
                     [r \in 1..n |-> IF IsNaField(fields[r]) THEN NaN
                                     ELSE IF fields[r].float THEN fields[r].value
                                     ELSE ParseInt(fields[r].chars)])
       ELSE Col(name, "object",
                [r \in 1..n |-> IF IsNaField(fields[r]) THEN NA ELSE fields[r].chars])

\* the name read_csv gives column i: "Unnamed: i-1" for an empty header field,
\* ".k" behind the k-th repetition of a name
HeaderName(header, i) ==
    LET k == Cardinality({j \in 1..(i - 1) : header[j] = header[i]})
    IN IF header[i] = <<>> THEN <<"U","n","n","a","m","e","d",":"," ">> \o FormatNat(i - 1)
       ELSE IF k = 0 THEN header[i]
       ELSE header[i] \o <<".">> \o FormatNat(k)

\* pd.read_csv(path, low_memory=False): no column is parsed as dates
read_csv(file) ==
    [n |-> Len(file.rows),
     cols |-> [i \in 1..Len(file.header) |->
                  ReadColumn(HeaderName(file.header, i),
                             [r \in 1..Len(file.rows) |-> file.rows[r][i]])]]

\* load_csv: the table, or a ValueError when the file has no column to parse
load_csv(file) ==
    IF file.header = <<>> THEN [raises |-> "ValueError", df |-> [n |-> 0, cols |-> <<>>]]
    ELSE [raises |-> "", df |-> read_csv(file)]

\* numeric, text or datetime
SemanticType(dtype) ==
    IF is_datetime64_any_dtype(dtype) THEN "datetime"
    ELSE IF dtype = "bool" THEN "boolean"
    ELSE IF is_numeric_dtype(dtype) THEN "numeric"
    ELSE "text"

---------------------------------------------------------------------------
(* Input tables *)

\* the most rows of a table of one text column; a table of two columns has one
\* row less, a table of one numeric column one row more
MaxRows == 3

\* the most rows of a table of the outlier family
MaxOutlierRows == 5

Txt_x == <<"x">>
Txt_y_padded == <<" ", "y">>
Txt_date == <<"2","0","2","1","-","0","3","-","0","4">>

\* every table of n rows with one column, its cells from cells1
Tables1(name1, dtype1, cells1, n) ==
    {[n |-> n, cols |-> <<Col(name1, dtype1, v1)>>] : v1 \in [1..n -> cells1]}

\* every table of n rows with two columns, their cells from cells1 and cells2
Tables2(name1, dtype1, cells1, name2, dtype2, cells2, n) ==
    {[n |-> n, cols |-> <<Col(name1, dtype1, v1), Col(name2, dtype2, v2)>>] :
        v1 \in [1..n -> cells1], v2 \in [1..n -> cells2]}

\* pandas reads a column of whole numbers without a gap as int64, any other
\* numeric column as float64
InferDtype(col) ==
    IF col.dtype = "float64" /\ \A r \in 1..Len(col.vals) : RIsInt(col.vals[r])
    THEN [col EXCEPT !.dtype = "int64"] ELSE col

Inferred(t) == [t EXCEPT !.cols = [i \in 1..Len(t.cols) |-> InferDtype(t.cols[i])]]

NumCells == {NaN, Num(1), Num(2), Num(4)}
TextCells == {NA, Txt_x, Txt_y_padded, Txt_date}

\* one numeric column
FamilyNum ==
    UNION {Tables1(<<"A","m","t">>, "float64", NumCells \cup {PosInf}, n) : n \in 1..(MaxRows + 1)}

\* one numeric column that may hold both infinities
FamilyInf ==
    UNION {Tables1(<<"A","m","t">>, "float64", {NaN, PosInf, NegInf, Num(1)}, n) : n \in 1..MaxRows}

\* the most rows of a table of one datetime column
MaxDateRows == 21

\* one datetime column of different days, one of them missing: the first, the
\* second or the last; with one row less than the most, 1 row in 20 is missing
FamilyDates ==
    {[n |-> n,
      cols |-> <<Col(<<"w","h","e","n">>, "datetime64",
                     [r \in 1..n |-> IF r = gap THEN NaT ELSE <<2021, 1, r>>])>>] :
        n \in {MaxDateRows - 1, MaxDateRows}, gap \in {1, 2, MaxDateRows - 1}}

\* one text column
FamilyText ==
    UNION {Tables1(<<" ","T","a","g">>, "object", TextCells, n) : n \in 1..MaxRows}

\* a numeric and a text column
FamilyMixed ==
    UNION {Tables2(<<"x">>, "float64", {NaN, Num(1), Num(2)},
                   <<"W","h","e","n">>, "object", {NA, Txt_x, Txt_date}, n) : n \in 1..(MaxRows - 1)}

\* a price and a quantity column
FamilyPrice ==
    UNION {Tables2(<<"P","r","i","c","e">>, "float64", {Num(0), Num(10), Num(20)},
                   <<"Q","t","y">>, "float64", {NaN, Num(0), Num(2)}, n) : n \in 1..(MaxRows - 1)}

\* price=[10,20,30,40], qty=[2,2,0,1]
ScenarioPrice ==
    [n |-> 4, cols |-> <<Col(<<"p","r","i","c","e">>, "float64", <<Num(10), Num(20), Num(30), Num(40)>>),
                         Col(<<"q","t","y">>, "float64", <<Num(2), Num(2), Num(0), Num(1)>>)>>]

OutlierCells == {NegInf, Num(0), Num(1), Num(2), Num(3), Num(4), Num(100)}

\* one numeric column of distinct values in increasing order
FamilyOutlier ==
    UNION {{t \in Tables1(<<"v">>, "float64", OutlierCells, n) :
               \A r \in 1..(n - 1) : RLt(t.cols[1].vals[r], t.cols[1].vals[r + 1])} :
           n \in (MaxOutlierRows - 1)..MaxOutlierRows}

\* the most rows of a table handed to the insight engine alone
MaxCorrRows == 4

Ramp(n) == [i \in 1..n |-> Num(i - 1)]

\* three numeric columns: a ramp, any cells after a first cell of NaN or 0, and
\* a constant or a column made from the ramp
CorrTables(n) ==
    {[n |-> n, cols |-> <<Col(<<"a">>, "float64", v1), Col(<<"b">>, "float64", v2),
                          Col(<<"c">>, "float64", v3)>>] :
        v1 \in {Ramp(n)},
        v2 \in {v \in [1..n -> {NaN, Num(0), Num(1), Num(2), Num(4)}] : v[1] \in {NaN, Num(0)}},
        v3 \in {[i \in 1..n |-> Num(2 * (i - 1))],
                [i \in 1..n |-> Num(1 - i)],
                [i \in 1..n |-> Num(1)],
                [i \in 1..n |-> IF i = 1 THEN NaN ELSE Num(i - 1)]}}

\* the most rows of a table of one categorical column of many values
MaxFreqRows == 12

Letters == <<"a", "b", "c", "d", "e", "f", "g", "h", "i", "j", "k", "l", "m", "n">>

\* one text column "tag": any cells on a few rows, and on the most rows the
\* first d letters over and over, for every d
FreqTables ==
    UNION {Tables1(<<"t","a","g">>, "object", {NA, <<"a">>, <<"b">>}, n) : n \in 1..(MaxRows + 1)}
    \cup {[n |-> MaxFreqRows,
           cols |-> <<Col(<<"t","a","g">>, "object",
                          [r \in 1..MaxFreqRows |-> <<Letters[((r - 1) % d) + 1]>>])>>] :
              d \in 1..MaxFreqRows}

\* the most rows of a table for the narrative
MaxNlgRows == 10

\* a date column "when", a ramp "a", numeric columns "b" and "c" and a text
\* column "tag": with a first date missing or none; "b" the ramp reversed, a
\* saw climbing with the ramp, nothing but NaN, or zeros before a last 9; "c"
\* constant, -9 before zeros, or twice the ramp; "tag" of one value, of nothing
\* but missing values, or of two values in turn
NlgTables(n) ==
    {[n |-> n,
      cols |-> <<Col(<<"w","h","e","n">>, "datetime64", w), Col(<<"a">>, "float64", Ramp(n)),
                 Col(<<"b">>, "float64", b), Col(<<"c">>, "float64", c),
                 Col(<<"t","a","g">>, "object", g)>>] :
        w \in {[r \in 1..n |-> <<2021, 1, r>>],
               [r \in 1..n |-> IF r = 1 THEN NaT ELSE <<2021, 1, r>>]},
        b \in {[r \in 1..n |-> Num(n - r)],
               [r \in 1..n |-> Num(((r - 1) % 4) * 3 + r - 1)],
               [r \in 1..n |-> NaN],
               [r \in 1..n |-> IF r = n THEN Num(9) ELSE Num(0)]},
        c \in {[r \in 1..n |-> Num(1)],
               [r \in 1..n |-> IF r = 1 THEN Num(-9) ELSE Num(0)],
               [r \in 1..n |-> Num(2 * (r - 1))]},
        g \in {[r \in 1..n |-> <<"a">>],
               [r \in 1..n |-> NA],
               [r \in 1..n |-> IF r % 2 = 1 THEN <<"b">> ELSE <<"a">>]}}

\* two numeric columns whose largest values differ by less than the four
\* places descriptive_stats keeps, the larger in either column
NearTieTables ==
    {[n |-> 3,
      cols |-> <<Col(<<"a">>, "float64", <<Num(0), Num(0), x>>),
                 Col(<<"b">>, "float64", <<Num(0), y, Num(0)>>)>>] :
        x \in {<<1, 100000>>, <<1, 50000>>}, y \in {<<1, 100000>>, <<1, 50000>>}}

InsightTables ==
    {Inferred(t) : t \in CorrTables(MaxCorrRows - 1) \cup CorrTables(MaxCorrRows)
                         \cup NlgTables(MaxNlgRows - 1) \cup NlgTables(MaxNlgRows)
                         \cup NearTieTables}
    \cup FreqTables

InputTables ==
    {Inferred(t) : t \in FamilyNum \cup FamilyInf \cup FamilyDates \cup FamilyText \cup FamilyMixed \cup FamilyPrice
                         \cup {ScenarioPrice} \cup FamilyOutlier}

---------------------------------------------------------------------------
(* The state machine *)

\* a run() that validates before it engineers features
run_validate_early ==
    <<"standardize_columns", "trim_strings", "remove_duplicates",
      "handle_missing_values", "convert_dates", "detect_outliers",
      "optimize_dtypes", "validate_output", "feature_engineering">>

\* the calls of ETLPipeline.run, in order
run == <<"standardize_columns", "trim_strings", "remove_duplicates",
         "handle_missing_values", "convert_dates", "detect_outliers",
         "optimize_dtypes", "feature_engineering", "validate_output">>

Self == Pipeline(df, transformations, outlier_counts)

\* ETLPipeline(df) constructed on one of the tables
InitOn(tables) ==
    /\ raw \in tables
    /\ df = raw
    /\ transformations = <<>>
    /\ outlier_counts = <<>>
    /\ pc = 1
    /\ pass = 1
    /\ called = <<>>
    /\ before = [df |-> raw, transformations |-> <<>>]
    /\ bundle = <<>>
    /\ uploads = <<>>
    /\ processed = <<>>
    /\ response = <<>>
    /\ server_log = {}

Init == InitOn(InputTables)

\* run() calls the method `name`, which leaves the pipeline as r; the method
\* changes self.df in place, and with it the caller's table were they one object
Call(name, r) ==
    /\ pc \in 1..Len(run)
    /\ run[pc] = name
    /\ df' = r.df
    /\ transformations' = r.transformations
    /\ outlier_counts' = r.outlier_counts
    /\ pc' = pc + 1
    /\ called' = Append(called, name)
    /\ before' = [df |-> df, transformations |-> transformations]
    /\ raw' = IF SelfDf = CallerTable THEN r.df ELSE raw
    /\ UNCHANGED <<pass, bundle, processed, webvars>>

StandardizeColumns == Call("standardize_columns", standardize_columns(Self))
TrimStrings == Call("trim_strings", trim_strings(Self))
RemoveDuplicates == Call("remove_duplicates", remove_duplicates(Self))
HandleMissingValues == Call("handle_missing_values", handle_missing_values(Self))
ConvertDates == Call("convert_dates", convert_dates(Self))
DetectOutliers == Call("detect_outliers", detect_outliers(Self))
OptimizeDtypes == Call("optimize_dtypes", optimize_dtypes(Self))
FeatureEngineering == Call("feature_engineering", feature_engineering(Self))
ValidateOutput == Call("validate_output", validate_output(Self))

\* a second ETLPipeline(cleaned).run() on the table the first run returned
Rerun ==
    /\ pc = Len(run) + 1
    /\ pass = 1
    /\ bundle = <<>>
    /\ processed = <<>>
    /\ pass' = 2
    /\ pc' = 1
    /\ df' = ETLPipeline(df).df
    /\ transformations' = ETLPipeline(df).transformations
    /\ outlier_counts' = ETLPipeline(df).outlier_counts
    /\ called' = <<>>
    /\ before' = [df |-> df, transformations |-> <<>>]
    /\ UNCHANGED <<raw, bundle, processed, webvars>>

\* generate_full_insights on the table the pipeline returned
GenerateInsights ==
    /\ pc = Len(run) + 1
    /\ bundle = <<>>
    /\ bundle' = generate_full_insights(df)
    /\ UNCHANGED <<raw, df, transformations, outlier_counts, pc, pass, called, before,
                   processed, webvars>>

\* run_etl after run() returned: the cleaned table is written to PROCESSED_FOLDER
SaveCleaned ==
    /\ pc = Len(run) + 1
    /\ pass = 1
    /\ bundle = <<>>
    /\ processed = <<>>
    /\ processed' = <<[name |-> 1, file |-> to_csv(df)]>>
    /\ UNCHANGED <<etlvars, webvars>>

Next ==
    \/ StandardizeColumns
    \/ TrimStrings
    \/ RemoveDuplicates
    \/ HandleMissingValues
    \/ ConvertDates
    \/ DetectOutliers
    \/ OptimizeDtypes
    \/ FeatureEngineering
    \/ ValidateOutput
    \/ Rerun
    \/ SaveCleaned
    \/ GenerateInsights

Spec == Init /\ [][Next]_vars

\* the insight engine alone, on a stored table: no step of the pipeline is pending
InitInsights ==
    /\ raw \in InsightTables
    /\ df = raw
    /\ transformations = <<>>
    /\ outlier_counts = <<>>
    /\ pc = Len(run) + 1
    /\ pass = 1
    /\ called = <<>>
    /\ before = [df |-> raw, transformations |-> <<>>]
    /\ bundle = <<>>
    /\ uploads = <<>>
    /\ processed = <<>>
    /\ response = <<>>
    /\ server_log = {}

SpecInsights == InitInsights /\ [][GenerateInsights]_vars

\* run has returned
Done == pc = Len(run) + 1

\* the step that ran last
LastCalled == IF called = <<>> THEN "" ELSE called[Len(called)]

---------------------------------------------------------------------------
(* The web application: upload_file, process_file and get_insights *)

\* config.MAX_CONTENT_LENGTH, in bytes
MAX_CONTENT_LENGTH == 10 * 1024 * 1024

\* config.ALLOWED_EXTENSIONS
ALLOWED_EXTENSIONS == {"csv"}

\* the texts of the exceptions the handlers meet
ExcNoColumns == "Unable to read CSV file: No columns to parse from file"
ExcZeroRows == "CSV file is empty - zero rows loaded."
ExcZeroColumns == "CSV file has no columns."
ExcTooLarge == "File size exceeds the maximum allowed."
ExcDisk == "[Errno 28] No space left on device"

\* the body generic handlers answer an internal error with
GenericInternalError == "An internal error occurred."

\* jsonify({"error": ...}), status: the body is the parts of its error text,
\* <<>> for the body of a success
Respond(status, body) == [status |-> status, body |-> body]

\* one record of the server log; exc is the text of the logged exception
LogRec(level, message, exc) == [level |-> level, message |-> message, exc |-> exc]

\* validate_file_size: the text of the ValueError, "" when it returns
validate_file_size(size) == IF size > MAX_CONTENT_LENGTH THEN ExcTooLarge ELSE ""

\* validate_csv: the text of the ValueError, "" when it returns its warnings
validate_csv(t) ==
    IF t.n = 0 \/ Len(t.cols) = 0 THEN ExcZeroRows
    ELSE IF Len(t.cols) = 0 THEN ExcZeroColumns
    ELSE ""

\* the method run() calls under this name, applied to the pipeline p
ApplyStep(name, p) ==
    CASE name = "standardize_columns" -> standardize_columns(p)
      [] name = "trim_strings" -> trim_strings(p)
      [] name = "remove_duplicates" -> remove_duplicates(p)
      [] name = "handle_missing_values" -> handle_missing_values(p)
      [] name = "convert_dates" -> convert_dates(p)
      [] name = "detect_outliers" -> detect_outliers(p)
      [] name = "optimize_dtypes" -> optimize_dtypes(p)
      [] name = "feature_engineering" -> feature_engineering(p)
      [] name = "validate_output" -> validate_output(p)

\* the pipelines of the set ps, each after the calls i..last of run()
RECURSIVE RunFrom(_, _, _)
RunFrom(ps, i, last) ==
    IF i > last THEN ps ELSE RunFrom({ApplyStep(run[i], p) : p \in ps}, i + 1, last)

\* upload_file on the file f; disk_fails: file_storage.save raises OSError.
\* saved: the file was written to UPLOAD_FOLDER
upload_file(f, disk_fails) ==
    IF f.size > MAX_CONTENT_LENGTH
    THEN [response |-> Respond(413, <<"File exceeds maximum size.">>), saved |-> FALSE, log |-> {}]
    ELSE IF f.ext \notin ALLOWED_EXTENSIONS
    THEN [response |-> Respond(400, <<"Invalid file type. Only CSV files are accepted.">>),
          saved |-> FALSE, log |-> {}]
    ELSE IF disk_fails
    THEN [response |-> Respond(500, <<"Upload failed: ", ExcDisk>>), saved |-> FALSE,
          log |-> {LogRec("exception", "Upload failed", ExcDisk)}]
    ELSE LET too_large == validate_file_size(f.size)
             loaded == load_csv(f.content)
             invalid == validate_csv(loaded.df)
             rejected == IF too_large # "" THEN too_large
                         ELSE IF loaded.raises # "" THEN ExcNoColumns
                         ELSE invalid
         IN IF rejected # ""
            THEN [response |-> Respond(400, <<rejected>>), saved |-> TRUE,
                  log |-> {LogRec("warning", "Upload validation failed", rejected)}]
            ELSE [response |-> Respond(200, <<>>), saved |-> TRUE,
                  log |-> {LogRec("info", "Upload successful", "")}]

\* the file can be uploaded no more once the folder of the model is full
MaxUploads == 2

\* POST /upload
Upload(f, disk_fails) ==
    LET out == upload_file(f, disk_fails)
    IN /\ Len(uploads) < MaxUploads
       /\ response' = out.response
       /\ server_log' = server_log \cup out.log
       /\ uploads' = IF out.saved THEN Append(uploads, f.content) ELSE uploads
       /\ UNCHANGED <<etlvars, processed>>

\* the processed file of the upload called name, <<>> when there is none
ProcessedOf(name) ==
    LET found == {i \in 1..Len(processed) : processed[i].name = name}
    IN IF found = {} THEN <<>> ELSE <<processed[CHOOSE i \in found : TRUE].file>>

\* PROCESSED_FOLDER after cleaned_<name> was written
WithProcessed(name, file) ==
    IF ProcessedOf(name) = <<>> THEN Append(processed, [name |-> name, file |-> file])
    ELSE [i \in 1..Len(processed) |->
             IF processed[i].name = name THEN [name |-> name, file |-> file] ELSE processed[i]]

\* POST /process with {"filename": name}, 0 for a body without one; disk_fails:
\* to_csv raises OSError
Process(name, disk_fails) ==
    IF name = 0
    THEN /\ response' = Respond(400, <<"Missing 'filename' in request body.">>)
         /\ UNCHANGED <<etlvars, uploads, processed, server_log>>
    ELSE IF name > Len(uploads)
    THEN /\ response' = Respond(404, <<"File not found.">>)
         /\ UNCHANGED <<etlvars, uploads, processed, server_log>>
    ELSE \E loaded \in {load_csv(uploads[name])} :
            IF loaded.raises # ""
            THEN /\ response' = Respond(400, <<ExcNoColumns>>)
                 /\ server_log' = server_log \cup {LogRec("warning", "ETL failed", ExcNoColumns)}
                 /\ UNCHANGED <<etlvars, uploads, processed>>
            ELSE \E ahead \in RunFrom({ETLPipeline(loaded.df)}, 1, Len(run) - 1) :
                 \E cleaned \in RunFrom({ahead}, Len(run), Len(run)) :
                 /\ raw' = loaded.df
                 /\ df' = cleaned.df
                 /\ transformations' = cleaned.transformations
                 /\ outlier_counts' = cleaned.outlier_counts
                 /\ pc' = Len(run) + 1
                 /\ pass' = 1
                 /\ called' = run
                 /\ before' = [df |-> ahead.df, transformations |-> ahead.transformations]
                 /\ UNCHANGED <<bundle, uploads>>
                 /\ IF disk_fails
                    THEN /\ response' = Respond(500, <<"Processing failed: ", ExcDisk>>)
                         /\ server_log' = server_log
                               \cup {LogRec("exception", "ETL processing failed", ExcDisk)}
                         /\ UNCHANGED processed
                    ELSE /\ response' = Respond(200, <<>>)
                         /\ server_log' = server_log \cup {LogRec("info", "ETL complete", "")}
                         /\ processed' = WithProcessed(name, to_csv(cleaned.df))

\* GET /insights?file=cleaned_<name>, 0 for a request without the parameter
Insights(name) ==
    IF name = 0
    THEN /\ response' = Respond(400, <<"Missing 'file' query parameter.">>)
         /\ UNCHANGED <<etlvars, uploads, processed, server_log>>
    ELSE IF ProcessedOf(name) = <<>>
    THEN /\ response' = Respond(404, <<"Processed file not found.">>)
         /\ UNCHANGED <<etlvars, uploads, processed, server_log>>
    ELSE \E loaded \in {load_csv(ProcessedOf(name)[1])} :
            IF loaded.raises # ""
            THEN /\ response' = Respond(500, <<"Insight generation failed: ", ExcNoColumns>>)
                 /\ server_log' = server_log
                       \cup {LogRec("exception", "Insight generation failed", ExcNoColumns)}
                 /\ UNCHANGED <<etlvars, uploads, processed>>
            ELSE /\ bundle' = generate_full_insights(loaded.df)
                 /\ response' = Respond(200, <<>>)
                 /\ server_log' = server_log \cup {LogRec("info", "Insights generated", "")}
                 /\ UNCHANGED <<raw, df, transformations, outlier_counts, pc, pass, called,
                                before, uploads, processed>>

\* the files a client sends: a table of two rows, a header without rows, one
\* row of two missing values, a file of zero bytes, the first under a name
\* that does not end in .csv, and the first padded beyond the size limit
FileGood == CsvFile(<<<<"A","m","t">>>>, <<<<TextField(<<"1">>)>>, <<TextField(<<"2">>)>>>>)
FileHeaderOnly == CsvFile(<<<<"A","m","t">>>>, <<>>)
FileAllMissing == CsvFile(<<<<"a">>, <<"b">>>>, <<<<TextField(<<>>), TextField(<<>>)>>>>)
FileZeroBytes == CsvFile(<<>>, <<>>)

UploadFiles ==
    {[ext |-> "csv", size |-> 1, content |-> c] :
        c \in {FileGood, FileHeaderOnly, FileAllMissing, FileZeroBytes}}
    \cup {[ext |-> "txt", size |-> 1, content |-> FileGood],
          [ext |-> "csv", size |-> MAX_CONTENT_LENGTH + 1, content |-> FileGood]}

NoTable == [n |-> 0, cols |-> <<>>]

\* the application started: empty folders, no pipeline constructed yet
InitApp ==
    /\ raw = NoTable
    /\ df = NoTable
    /\ transformations = <<>>
    /\ outlier_counts = <<>>
    /\ pc = 1
    /\ pass = 1
    /\ called = <<>>
    /\ before = [df |-> NoTable, transformations |-> <<>>]
    /\ bundle = <<>>
    /\ uploads = <<>>
    /\ processed = <<>>
    /\ response = <<>>
    /\ server_log = {}

UploadFile == \E f \in UploadFiles, disk_fails \in BOOLEAN : Upload(f, disk_fails)
ProcessFile == \E name \in 0..MaxUploads, disk_fails \in BOOLEAN : Process(name, disk_fails)
GetInsights == \E name \in 0..MaxUploads : Insights(name)

NextApp ==
    \/ UploadFile
    \/ ProcessFile
    \/ GetInsights

SpecApp == InitApp /\ [][NextApp]_vars

---------------------------------------------------------------------------
(* Line charts: the chart of a time series by the number of its rows *)

\* the most rows of a series that hold both the date and the number
MaxSeries == 450

\* the line chart auto_select_charts makes of a datetime and a numeric column
\* with n rows that hold both; only the number of these rows matters to it
SelectLineChart ==
    \E n \in 2..MaxSeries :
        /\ bundle = <<>>
        /\ bundle' = [rows |-> n,
                      charts |-> <<Chart("line", <<<<"w","h","e","n">>, <<"v">>>>, LinePoints(n))>>]
        /\ UNCHANGED <<raw, df, transformations, outlier_counts, pc, pass, called, before,
                       processed, webvars>>

SpecLine == InitApp /\ [][SelectLineChart]_vars

---------------------------------------------------------------------------
(* Date-like columns: convert_dates on text columns longer than its sample *)

\* the most rows of a table of the sample family
MaxSampleRows == 52

\* the text of a date of 2021, a different one for every row
DateText(r) == FormatDate(<<2021, 1 + ((r - 1) \div 28), 1 + ((r - 1) % 28)>>)

\* a text that is no date, a different one for every row
JunkText(r) == <<"x">> \o FormatNat(r)

\* one text column "seen" of different values: k dates and then no date, or k
\* texts that are no dates and then dates only
SampleTables ==
    {[n |-> n,
      cols |-> <<Col(<<"s","e","e","n">>, "object",
                     [r \in 1..n |-> IF (r <= k) = dates_first THEN DateText(r) ELSE JunkText(r)])>>] :
        n \in {MaxSampleRows - 1, MaxSampleRows}, k \in 0..MaxSampleRows, dates_first \in BOOLEAN}

\* run() has made its first four calls on one of the tables
InitDates ==
    /\ raw \in SampleTables
    /\ \E earlier \in RunFrom({ETLPipeline(raw)}, 1, 3) :
       \E now \in RunFrom({earlier}, 4, 4) :
          /\ df = now.df
          /\ transformations = now.transformations
          /\ outlier_counts = now.outlier_counts
          /\ before = [df |-> earlier.df, transformations |-> earlier.transformations]
    /\ pc = 5
    /\ pass = 1
    /\ called = SubSeq(run, 1, 4)
    /\ bundle = <<>>
    /\ uploads = <<>>
    /\ processed = <<>>
    /\ response = <<>>
    /\ server_log = {}

SpecDates == InitDates /\ [][ConvertDates]_vars

---------------------------------------------------------------------------
(* Column names: standardize_columns on tables of two columns with any names *)

\* the most characters of a column name of the header family
MaxNameLen == 2

NameChars == {"A", "a", "1", "_", "-", " "}

Names == UNION {[1..k -> NameChars] : k \in 1..MaxNameLen}

\* the tables of one row whose header holds two different names
HeaderTables ==
    {[n |-> 1, cols |-> <<Col(h[1], "object", <<Txt_x>>), Col(h[2], "object", <<Txt_x>>)>>] :
        h \in {g \in Names \X Names : g[1] # g[2]}}

InitNames == InitOn(HeaderTables)

SpecNames == InitNames /\ [][StandardizeColumns]_vars

\* the name is one or more of a-z, 0-9 and _, without an underscore at either
\* end and without two in a row
WellFormed(name) ==
    /\ name # <<>>
    /\ \A i \in 1..Len(name) : name[i] \in LowerCase \cup Digits \cup {"_"}
    /\ name[1] # "_"
    /\ name[Len(name)] # "_"
    /\ \A i \in 1..(Len(name) - 1) : ~(name[i] = "_" /\ name[i + 1] = "_")

\* C3: after standardize_columns every column name matches ^[a-z0-9_]+$, so is
\* not empty, and has no leading, trailing or double underscore
C3_NamesWellFormed ==
    LastCalled = "standardize_columns" => \A i \in 1..Len(df.cols) : WellFormed(df.cols[i].name)

\* C4: the column names of the working table are pairwise distinct in every
\* state: standardize_columns maps different names to different names
C4_NamesDistinct ==
    \A i, j \in 1..Len(df.cols) : i # j => df.cols[i].name # df.cols[j].name

---------------------------------------------------------------------------
(* Properties of the cleaning pipeline *)

\* the nine steps in the order the specification fixes
NineSteps == <<"standardize_columns", "trim_strings", "remove_duplicates",
               "handle_missing_values", "convert_dates", "detect_outliers",
               "optimize_dtypes", "feature_engineering", "validate_output">>

\* the number of the step that writes a log entry of this kind
WrittenBy(kind) ==
    CASE kind = "standardized_column_names" -> 1
      [] kind = "trimmed_string_fields" -> 2
      [] kind = "removed_duplicates" -> 3
      [] kind \in {"filled_missing_with_median", "filled_missing_with_mean",
                   "filled_missing_with_mode", "dropped_missing_datetime",
                   "forward_filled_datetime"} -> 4
      [] kind = "converted_to_datetime" -> 5
      [] kind = "detected_outliers" -> 6
      [] kind = "optimized_dtypes" -> 7
      [] kind \in {"extracted_date_parts", "created_price_per_unit"} -> 8
      [] kind \in {"replaced_infinities", "dropped_all_null_columns"} -> 9

\* C1: run applies the nine steps exactly once each in the fixed order (the calls
\* made so far are a prefix of the nine, and all nine when run returns), and in
\* the log every entry of step i precedes every entry of step j for i < j.
C1_FixedOrder ==
    /\ Len(called) = pc - 1
    /\ called = SubSeq(NineSteps, 1, Len(called))
    /\ \A i, j \in 1..Len(transformations) :
          i < j => WrittenBy(transformations[i].kind) <= WrittenBy(transformations[j].kind)

\* a finished run whose log holds entries of at least four different steps
C1_Witness ==
    /\ Done
    /\ Cardinality({WrittenBy(transformations[i].kind) : i \in 1..Len(transformations)}) >= 4

C5_SecondPassLogsNothingNew ==
    (pass = 2 /\ Done) =>
        \A i \in 1..Len(transformations) : WrittenBy(transformations[i].kind) \notin {3, 4, 6}

\* the numbers of the rows of the column outside its own IQR bounds
Violations(col) == MaskCount(OutlierMask(col))

\* C6: in the cleaned table and summary, every entry col -> n of the outlier map
\* has a column is_outlier_<col> of 0s and 1s, and n is both the number of 1s
\* and the number of rows of col outside [Q1 - k*IQR, Q3 + k*IQR] recomputed
\* from the cleaned table
C6_FlagsMatchRecount ==
    Done =>
        \A e \in Range(get_summary(Self).outliers_detected) :
            /\ HasCol(df, e.col)
            /\ HasCol(df, IsOutlierPrefix \o e.col)
            /\ LET flag == df.cols[ColIdx(df, IsOutlierPrefix \o e.col)]
                   col == df.cols[ColIdx(df, e.col)]
               IN /\ \A r \in 1..df.n : flag.vals[r] \in {Num(0), Num(1)}
                  /\ e.n = Cardinality({r \in 1..df.n : flag.vals[r] = Num(1)})
                  /\ e.n = Violations(col)

\* the positions of the numeric columns of the table the last step started on
NumericBefore == {i \in 1..Len(before.df.cols) : IsNumber(before.df.cols[i].dtype)}

\* the entries handle_missing_values appended that name the column
FillEntries(name) ==
    {i \in (Len(before.transformations) + 1)..Len(transformations) :
        transformations[i].cols = <<name>>}

\* the numeric column at position k was filled as step 4 fills it: with its
\* median when the absolute skewness is above the threshold and with its mean
\* otherwise, and one entry names the strategy and the number of values filled
FilledNumeric(k) ==
    LET col == before.df.cols[k]
        skewed == SkewAbove(col, SKEWNESS_THRESHOLD)
        fill == IF skewed THEN median(col) ELSE mean(col)
    IN /\ df.cols[k].vals
             = [r \in 1..Len(col.vals) |-> IF IsNaN(col.vals[r]) THEN fill ELSE col.vals[r]]
       /\ Cardinality(FillEntries(col.name)) = 1
       /\ \A i \in FillEntries(col.name) :
             /\ transformations[i].kind
                   = (IF skewed THEN "filled_missing_with_median" ELSE "filled_missing_with_mean")
             /\ transformations[i].n = Cardinality({r \in 1..Len(col.vals) : IsNaN(col.vals[r])})

\* the value step 4 fills the column with is NaN
FillIsNaN(col) ==
    IsNaN(IF SkewAbove(col, SKEWNESS_THRESHOLD) THEN median(col) ELSE mean(col))

\* the positions of the numeric columns with a missing and a present value,
\* and of those without a missing value, when step 4 started
PartlyMissing ==
    {k \in NumericBefore : \E r, q \in 1..before.df.n :
        IsNaN(before.df.cols[k].vals[r]) /\ ~IsNaN(before.df.cols[k].vals[q])}

NothingMissing ==
    {k \in NumericBefore : \A r \in 1..before.df.n : ~IsNaN(before.df.cols[k].vals[r])}

\* C18 as stated: step 4 fills every numeric column that has a missing and a
\* present value with its median when |skewness| is above the threshold and
\* with its mean otherwise; afterwards the column has no missing value and
\* exactly one log entry names the strategy and the number of filled values;
\* a column without a missing value is unchanged and logs nothing
C18_NumericImputation ==
    LastCalled = "handle_missing_values" =>
        /\ \A k \in PartlyMissing :
              /\ FilledNumeric(k)
              /\ \A r \in 1..df.n : ~IsNaN(df.cols[k].vals[r])
        /\ \A k \in NothingMissing :
              df.cols[k] = before.df.cols[k] /\ FillEntries(before.df.cols[k].name) = {}

\* C18 as amended: the same, the column having no missing value afterwards
\* unless the mean or median it is filled with is itself NaN, in which case
\* its missing values stay
C18_NumericImputation_UnlessFillIsNaN ==
    LastCalled = "handle_missing_values" =>
        /\ \A k \in PartlyMissing :
              /\ FilledNumeric(k)
              /\ IF FillIsNaN(before.df.cols[k])
                 THEN df.cols[k].vals = before.df.cols[k].vals
                 ELSE \A r \in 1..df.n : ~IsNaN(df.cols[k].vals[r])
        /\ \A k \in NothingMissing :
              df.cols[k] = before.df.cols[k] /\ FillEntries(before.df.cols[k].name) = {}

\* a column with a missing value filled with the median of its skewed rest
C18_Witness ==
    /\ LastCalled = "handle_missing_values"
    /\ \E k \in PartlyMissing :
          /\ Cardinality({r \in 1..before.df.n : IsNaN(before.df.cols[k].vals[r])}) >= 1
          /\ SkewAbove(before.df.cols[k], SKEWNESS_THRESHOLD)
          /\ \A r \in 1..df.n : IsFinite(df.cols[k].vals[r])
    /\ \E i \in 1..Len(transformations) : transformations[i].kind = "filled_missing_with_median"

\* the positions of the datetime columns with a missing value when the last
\* step started
DatetimeMissing ==
    {k \in 1..Len(before.df.cols) :
        /\ before.df.cols[k].dtype = "datetime64"
        /\ \E r \in 1..before.df.n : before.df.cols[k].vals[r] = NaT}

\* the rows of the column that hold a date, in order
DatedRows(col) == SelectIdx([r \in 1..Len(col.vals) |-> col.vals[r] # NaT], 1, Len(col.vals))

\* the missing fraction of the column is below DATETIME_MISSING_DROP_PCT percent
FewMissing(col) ==
    100 * (Len(col.vals) - Len(DatedRows(col))) < DATETIME_MISSING_DROP_PCT * Len(col.vals)

\* exactly the rows of the table without a date in column k were removed, and
\* the rows left are numbered anew
RowsDropped(k) ==
    LET col == before.df.cols[k]
        kept == DatedRows(col)
    IN /\ df.n = Len(kept)
       /\ df.cols[k].vals = [i \in 1..Len(kept) |-> col.vals[kept[i]]]
       /\ \A j \in 1..Len(df.cols) : Len(df.cols[j].vals) = df.n
       /\ \E i \in FillEntries(col.name) :
             /\ transformations[i].kind = "dropped_missing_datetime"
             /\ transformations[i].n = Len(col.vals) - Len(kept)

\* no row was removed, and every missing value of column k took the date of the
\* nearest row above it that holds one, staying missing when there is none
ForwardFilled(k) ==
    LET col == before.df.cols[k]
        above(r) == {q \in 1..(r - 1) : col.vals[q] # NaT}
    IN /\ df.n = before.df.n
       /\ \A r \in 1..df.n :
             df.cols[k].vals[r]
                = (IF col.vals[r] # NaT THEN col.vals[r]
                   ELSE IF above(r) = {} THEN NaT
                   ELSE col.vals[CHOOSE q \in above(r) : \A p \in above(r) : p <= q])
       /\ \E i \in FillEntries(col.name) :
             /\ transformations[i].kind = "forward_filled_datetime"
             /\ transformations[i].n = Len(col.vals) - Len(DatedRows(col))

\* C19 as stated: in step 4, for a datetime column with missing values, exactly
\* the rows missing that value are removed and the table re-indexed when the
\* missing fraction is below 5%, otherwise the column is forward-filled and no
\* row is removed; either way the column has no missing value afterwards
C19_DatetimeImputation ==
    (LastCalled = "handle_missing_values" /\ Cardinality(DatetimeMissing) = 1) =>
        \A k \in DatetimeMissing :
            /\ IF FewMissing(before.df.cols[k]) THEN RowsDropped(k) ELSE ForwardFilled(k)
            /\ \A r \in 1..df.n : df.cols[k].vals[r] # NaT

\* C19 as amended: the same, except that after a forward fill the values that
\* were missing above the first dated row are still missing, and only they
C19_DatetimeImputation_LeadingStay ==
    (LastCalled = "handle_missing_values" /\ Cardinality(DatetimeMissing) = 1) =>
        \A k \in DatetimeMissing :
            IF FewMissing(before.df.cols[k])
            THEN RowsDropped(k) /\ \A r \in 1..df.n : df.cols[k].vals[r] # NaT
            ELSE /\ ForwardFilled(k)
                 /\ \A r \in 1..df.n :
                       df.cols[k].vals[r] = NaT
                          <=> \A q \in 1..r : before.df.cols[k].vals[q] = NaT

\* one row in MaxDateRows had no date and was removed
C19_Witness ==
    /\ LastCalled = "handle_missing_values"
    /\ Cardinality(DatetimeMissing) = 1
    /\ \A k \in DatetimeMissing : FewMissing(before.df.cols[k]) /\ RowsDropped(k)
    /\ df.n = before.df.n - 1

\* the positions of the text columns of the table the last step started on
TextBefore == {k \in 1..Len(before.df.cols) : before.df.cols[k].dtype = "object"}

\* of the first (up to) DATE_SAMPLE non-missing values of the column, strictly
\* more than 0.6 parse as dates
MostOfSampleParses(col) ==
    LET present == SelectIdx([r \in 1..Len(col.vals) |-> col.vals[r] # NA], 1, Len(col.vals))
        size == IF Len(present) < DATE_SAMPLE THEN Len(present) ELSE DATE_SAMPLE
        parsed == {i \in 1..size : to_datetime(col.vals[present[i]]) # NaT}
    IN size > 0 /\ 10 * Cardinality(parsed) > 6 * size

\* the positions of the columns convert_dates has to convert
ToConvert == {k \in TextBefore : MostOfSampleParses(before.df.cols[k])}

OutsideRows(col) ==
    LET q1 == quantile(col, 1, 4)
        q3 == quantile(col, 3, 4)
        iqr == RSub(q3, q1)
    IN {r \in 1..Len(col.vals) :
           \/ RLt(col.vals[r], RSub(q1, RMul(IQR_MULTIPLIER, iqr)))
           \/ RGt(col.vals[r], RAdd(q3, RMul(IQR_MULTIPLIER, iqr)))}

ZeroIqr(col) == REq(RSub(quantile(col, 3, 4), quantile(col, 1, 4)), Num(0))

\* detect_outliers left the column alone: its flag column is absent or as it
\* was, and the map has no entry for it
NotFlagged(col) ==
    LET flag == IsOutlierPrefix \o col.name
    IN /\ HasCol(df, flag) <=> HasCol(before.df, flag)
       /\ HasCol(df, flag) => df.cols[ColIdx(df, flag)] = before.df.cols[ColIdx(before.df, flag)]
       /\ ~DictHas(outlier_counts, col.name)

\* detect_outliers flagged the column: the flag column is 1 on the rows outside
\* the bounds and 0 elsewhere, and the map holds their number
Flagged(col) ==
    LET flag == IsOutlierPrefix \o col.name
    IN /\ HasCol(df, flag)
       /\ df.cols[ColIdx(df, flag)].vals
             = [r \in 1..Len(col.vals) |-> IF r \in OutsideRows(col) THEN Num(1) ELSE Num(0)]
       /\ DictHas(outlier_counts, col.name)
       /\ DictGet(outlier_counts, col.name) = Cardinality(OutsideRows(col))

\* C15 as stated: detect_outliers skips a numeric column whose IQR is 0 and
\* otherwise adds is_outlier_<col>, 1 exactly on the rows below Q1 - k*IQR or
\* above Q3 + k*IQR and 0 elsewhere, and records the flagged count
C15_DetectOutliers ==
    LastCalled = "detect_outliers" =>
        \A i \in NumericBefore :
            LET col == before.df.cols[i]
            IN IF ZeroIqr(col) THEN NotFlagged(col) ELSE Flagged(col)

\* C15 as amended: a numeric column whose IQR is 0, or that has no row outside
\* the bounds, gets no flag column and no map entry; every other numeric column
\* gets is_outlier_<col>, 1 exactly on the rows outside the bounds and 0
\* elsewhere, and its flagged count is recorded
C15_DetectOutliers_WhenSomeOutside ==
    LastCalled = "detect_outliers" =>
        \A i \in NumericBefore :
            LET col == before.df.cols[i]
            IN IF ZeroIqr(col) \/ OutsideRows(col) = {} THEN NotFlagged(col) ELSE Flagged(col)

\* the column [1,2,3,4,100]: Q1 = 2, Q3 = 4, upper bound 7, only 100 flagged
C15_Witness ==
    /\ LastCalled = "detect_outliers"
    /\ \E i \in NumericBefore :
          LET col == before.df.cols[i]
          IN /\ col.vals = <<Num(1), Num(2), Num(3), Num(4), Num(100)>>
             /\ quantile(col, 1, 4) = Num(2) /\ quantile(col, 3, 4) = Num(4)
             /\ UpperBound(col) = Num(7)
             /\ Flagged(col)
             /\ df.cols[ColIdx(df, IsOutlierPrefix \o col.name)].vals
                   = <<Num(0), Num(0), Num(0), Num(0), Num(1)>>

\* the price-like and the quantity-like column of a table, <<>> for none
PriceCol(t) == Or(ColsLowerGet(t, StrPrice), ColsLowerGet(t, StrTotalPrice))
QtyCol(t) == Or(ColsLowerGet(t, StrQuantity), ColsLowerGet(t, StrQty))

HasPriceAndQty(t) ==
    /\ PriceCol(t) # <<>> /\ QtyCol(t) # <<>>
    /\ IsNumber(t.cols[ColIdx(t, PriceCol(t))].dtype)
    /\ IsNumber(t.cols[ColIdx(t, QtyCol(t))].dtype)

\* price_per_unit is price / quantity where the quantity is not zero, missing elsewhere
PerUnitRight(t) ==
    /\ HasCol(t, StrPricePerUnit)
    /\ LET ppu == t.cols[ColIdx(t, StrPricePerUnit)]
           price == t.cols[ColIdx(t, PriceCol(t))]
           qty == t.cols[ColIdx(t, QtyCol(t))]
       IN \A r \in 1..t.n :
             IF qty.vals[r] = Num(0) THEN IsNaN(ppu.vals[r])
             ELSE ppu.vals[r] = RDiv(price.vals[r], qty.vals[r])

\* C7 as stated: a cleaned table with a numeric price-like and a numeric
\* quantity-like column has the column price_per_unit
C7_PricePerUnit ==
    (Done /\ pass = 1 /\ HasPriceAndQty(df)) => PerUnitRight(df)

SomeQuantity(t) ==
    \E r \in 1..t.n : ~IsNaN(t.cols[ColIdx(t, QtyCol(t))].vals[r])
                      /\ t.cols[ColIdx(t, QtyCol(t))].vals[r] # Num(0)

\* C7 as amended: when some row has a quantity other than zero the cleaned table
\* has price_per_unit = price / quantity on the rows with a non-zero quantity and
\* missing on the rows with a zero quantity; when every quantity is zero the
\* column, created all missing, is dropped by validate_output; and price =
\* [10,20,30,40], qty = [2,2,0,1] gives [5, 10, missing, 40]
C7_PricePerUnit_SomeQuantity ==
    /\ (Done /\ pass = 1 /\ HasPriceAndQty(df)) =>
          IF SomeQuantity(df) THEN PerUnitRight(df) ELSE ~HasCol(df, StrPricePerUnit)
    /\ (Done /\ pass = 1 /\ raw = Inferred(ScenarioPrice)) =>
          df.cols[ColIdx(df, StrPricePerUnit)].vals = <<Num(5), Num(10), NaN, Num(40)>>

\* a cleaned table whose price_per_unit has a value and a gap
C7_Witness ==
    /\ Done /\ pass = 1 /\ HasPriceAndQty(df) /\ HasCol(df, StrPricePerUnit)
    /\ \E r \in 1..df.n : IsNaN(df.cols[ColIdx(df, StrPricePerUnit)].vals[r])
    /\ \E r \in 1..df.n : IsFinite(df.cols[ColIdx(df, StrPricePerUnit)].vals[r])

\* C22: neither engine modifies its caller's table - no step of
\* ETLPipeline(df).run() changes the table the caller passed (the pipeline
\* changes only its own copy), so after run() it has the columns, rows and
\* values it had before, and generate_full_insights leaves the table it is
\* given as it was
C22_CallerTableUnchanged ==
    [][/\ raw' = raw
       /\ bundle' # bundle => df' = df]_vars

\* a first run has changed the pipeline's own table, and the insights of the
\* cleaned table have been generated
C22_Witness ==
    /\ Done
    /\ pass = 1
    /\ df # raw
    /\ bundle # <<>>

\* the step that ran logged that it dropped the rows of a missing date
LoggedDateDrop ==
    /\ Len(transformations') > Len(transformations)
    /\ \E i \in (Len(transformations) + 1)..Len(transformations') :
          transformations'[i].kind = "dropped_missing_datetime"

\* C23: for an input table of at least one row, the row count never grows
\* during the pipeline and never reaches zero (1 <= rows_after <= rows_before);
\* only remove_duplicates and the branch of handle_missing_values that drops
\* the rows of a missing date change it, every other step leaves it as it is;
\* and rows_after of the summary is the row count of the cleaned table, which
\* every column of the table agrees on
C23_RowCount ==
    [][raw.n >= 1 =>
          /\ 1 <= df.n /\ df.n <= raw.n
          /\ 1 <= df'.n /\ df'.n <= df.n
          /\ \A k \in 1..Len(df'.cols) : Len(df'.cols[k].vals) = df'.n
          /\ df'.n # df.n =>
                \/ LastCalled' = "remove_duplicates"
                \/ LastCalled' = "handle_missing_values" /\ LoggedDateDrop
          /\ Done' =>
                get_summary(Pipeline(df', transformations', outlier_counts')).rows_after
                   = df'.n]_vars

\* a run that returned fewer rows than it was given, handle_missing_values
\* having dropped the rows of a missing date
C23_Witness ==
    /\ Done
    /\ df.n >= 1
    /\ df.n < raw.n
    /\ \E i \in 1..Len(transformations) : transformations[i].kind = "dropped_missing_datetime"

---------------------------------------------------------------------------
(* Properties of the insight engine *)

\* every value of the column is missing
EveryValueMissing(col) == \A r \in 1..Len(col.vals) : IsNA(col.dtype, col.vals[r])

\* the columns the bundle names anywhere
BundleColumns ==
    Range(bundle.column_types.numeric) \cup Range(bundle.column_types.categorical)
    \cup Range(bundle.column_types.datetime)
    \cup {bundle.descriptive_stats[i].column : i \in 1..Len(bundle.descriptive_stats)}
    \cup DOMAIN bundle.correlation.matrix
    \cup {bundle.frequency_tables[i].column : i \in 1..Len(bundle.frequency_tables)}
    \cup UNION {Range(bundle.charts[i].cols) : i \in 1..Len(bundle.charts)}
    \cup UNION {Range(bundle.insights[i].cols) : i \in 1..Len(bundle.insights)}

ExactMissingPct(name) ==
    LET col == df.cols[ColIdx(df, name)]
    IN RMul(RDiv(Num(Cardinality({r \in 1..df.n : IsNA(col.dtype, col.vals[r])})), Num(df.n)),
            Num(100))

\* C9 as stated: the missing_pct of every stats record equals missing count /
\* row count * 100, both counted in the table before the column's missing values
\* are dropped
C9_MissingPctExact ==
    bundle # <<>> =>
        \A i \in 1..Len(bundle.descriptive_stats) :
            bundle.descriptive_stats[i].missing_pct
                = ExactMissingPct(bundle.descriptive_stats[i].column)

\* C9 as amended: the missing_pct of every stats record is missing count / row
\* count * 100 rounded to two decimal places: a whole number of hundredths at
\* most half a hundredth from the exact value
C9_MissingPctRounded ==
    bundle # <<>> =>
        \A i \in 1..Len(bundle.descriptive_stats) :
            LET m == bundle.descriptive_stats[i].missing_pct
                e == ExactMissingPct(bundle.descriptive_stats[i].column)
            IN /\ RIsInt(RMul(m, Num(100)))
               /\ ~RGt(RAbs(RSub(m, e)), <<1, 200>>)

\* a stats record whose percentage was rounded
C9_Witness ==
    /\ bundle # <<>>
    /\ \E i \in 1..Len(bundle.descriptive_stats) :
          bundle.descriptive_stats[i].missing_pct
              # ExactMissingPct(bundle.descriptive_stats[i].column)

\* the values of the column on the rows complete in every numeric column
OnCompleteRows(name) ==
    LET numeric == bundle.column_types.numeric
        rows == {r \in 1..df.n : \A k \in 1..Len(numeric) :
                    ~IsNaN(df.cols[ColIdx(df, numeric[k])].vals[r])}
    IN Take(df.cols[ColIdx(df, name)].vals,
            SelectIdx([r \in 1..df.n |-> r \in rows], 1, df.n))

\* the parts of C10 about the list of significant pairs and the symmetry
PairsRight ==
    LET pairs == bundle.correlation.significant_pairs
        matrix == bundle.correlation.matrix
    IN /\ \A i \in 1..Len(pairs) :
             /\ pairs[i].col1 # pairs[i].col2
             /\ {pairs[i].col1, pairs[i].col2} \subseteq Range(bundle.column_types.numeric)
             /\ pearsonr(OnCompleteRows(pairs[i].col1), OnCompleteRows(pairs[i].col2)) = "below"
             /\ pairs[i].correlation = matrix[pairs[i].col1][pairs[i].col2]
       /\ \A i, j \in 1..Len(pairs) :
             i < j => /\ {pairs[i].col1, pairs[i].col2} # {pairs[j].col1, pairs[j].col2}
                      /\ ~RGt(RAbs(pairs[j].correlation), RAbs(pairs[i].correlation))
       /\ \A c1, c2 \in DOMAIN matrix : matrix[c1][c2] = matrix[c2][c1]

\* C10 as stated: with two numeric columns or more, every unordered pair is
\* listed at most once, every listed pair has a p-value below the threshold and
\* the correlation of the matrix, the list is in order of non-increasing
\* absolute correlation, and the matrix is symmetric with 1 on its diagonal
C10_Correlation ==
    (bundle # <<>> /\ Len(bundle.column_types.numeric) >= 2) =>
        /\ PairsRight
        /\ \A c \in DOMAIN bundle.correlation.matrix : bundle.correlation.matrix[c][c] = Num(1)

\* C10 as amended: the same, with a diagonal entry of 1 for every numeric column
\* that takes two different values on the rows complete in all numeric columns
\* and NaN for the other numeric columns
C10_Correlation_DiagonalOfVaryingColumns ==
    (bundle # <<>> /\ Len(bundle.column_types.numeric) >= 2) =>
        /\ PairsRight
        /\ DOMAIN bundle.correlation.matrix = Range(bundle.column_types.numeric)
        /\ \A c \in DOMAIN bundle.correlation.matrix :
              bundle.correlation.matrix[c][c]
                  = IF Cardinality(Range(OnCompleteRows(c))) >= 2 THEN Num(1) ELSE NaN

\* three significant pairs, the strongest of them not the first the loops met
C10_Witness ==
    /\ bundle # <<>>
    /\ Len(bundle.correlation.significant_pairs) = 3
    /\ bundle.correlation.significant_pairs[1].col2 = <<"c">>
    /\ RGt(RAbs(bundle.correlation.significant_pairs[1].correlation),
           RAbs(bundle.correlation.significant_pairs[3].correlation))

\* the rows of the column that hold v
Occurrences(col, v) == {r \in 1..Len(col.vals) : col.vals[r] = v}

\* the rows of the column that hold a value
PresentRows(col) == {r \in 1..Len(col.vals) : ~IsNA(col.dtype, col.vals[r])}

\* the record lists at most TOP_N_CATEGORIES different values of the column with
\* their counts, no count larger than the one before it and no value left out
\* that occurs more often than a listed one, and unique_count is the number of
\* different values the column holds
FreqShape(f, col) ==
    /\ Len(f.values) <= TOP_N_CATEGORIES
    /\ Len(f.counts) = Len(f.values) /\ Len(f.percentages) = Len(f.values)
    /\ \A k \in 1..Len(f.values) :
          /\ f.counts[k] = Cardinality(Occurrences(col, f.values[k]))
          /\ f.counts[k] > 0
          /\ ~IsNA(col.dtype, f.values[k])
    /\ \A k, l \in 1..Len(f.values) : k < l =>
          f.values[k] # f.values[l] /\ f.counts[k] >= f.counts[l]
    /\ \A r \in PresentRows(col) :
          \/ \E k \in 1..Len(f.values) : f.values[k] = col.vals[r]
          \/ /\ Len(f.values) = TOP_N_CATEGORIES
             /\ \A k \in 1..Len(f.values) :
                   f.counts[k] >= Cardinality(Occurrences(col, col.vals[r]))
    /\ f.unique_count = Cardinality({col.vals[r] : r \in PresentRows(col)})

\* the frequency tables name the categorical columns, one record each
FreqColumns ==
    [i \in 1..Len(bundle.frequency_tables) |-> bundle.frequency_tables[i].column]
        = bundle.column_types.categorical

\* C11 as stated: for every categorical column frequency_tables lists at most
\* the top N values in non-increasing order of count, each percentage equal to
\* count / non-missing rows x 100, and unique_count the number of different
\* non-missing values of the whole column
C11_FrequencyTables ==
    bundle # <<>> =>
        /\ FreqColumns
        /\ \A i \in 1..Len(bundle.frequency_tables) :
              LET f == bundle.frequency_tables[i]
                  col == df.cols[ColIdx(df, f.column)]
              IN /\ FreqShape(f, col)
                 /\ \A k \in 1..Len(f.values) :
                       f.percentages[k]
                           = Rat(f.counts[k] * 100, Cardinality(PresentRows(col)))

\* C11 as amended: the same, each percentage being count / non-missing rows x 100
\* rounded to one decimal place: ten times the percentage is the integer
\* nearest to 1000 x count / non-missing rows, the even one when two are as near
C11_FrequencyTables_Rounded ==
    bundle # <<>> =>
        /\ FreqColumns
        /\ \A i \in 1..Len(bundle.frequency_tables) :
              LET f == bundle.frequency_tables[i]
                  col == df.cols[ColIdx(df, f.column)]
                  total == Cardinality(PresentRows(col))
              IN /\ FreqShape(f, col)
                 /\ \A k \in 1..Len(f.values) :
                       LET tenfold == RMul(f.percentages[k], Num(10))
                           m == tenfold[1]
                           off == Abs(m * total - 1000 * f.counts[k])
                       IN /\ RIsInt(tenfold)
                          /\ 2 * off <= total
                          /\ 2 * off = total => m % 2 = 0

\* a column of more than TOP_N_CATEGORIES different values, its table cut to
\* the first TOP_N_CATEGORIES, one percentage of which had to be rounded
C11_Witness ==
    /\ bundle # <<>>
    /\ \E i \in 1..Len(bundle.frequency_tables) :
          LET f == bundle.frequency_tables[i]
          IN /\ f.unique_count > TOP_N_CATEGORIES
             /\ Len(f.values) = TOP_N_CATEGORIES
             /\ \E k \in 1..Len(f.values) :
                   f.percentages[k] # Rat(f.counts[k] * 100, MaxFreqRows)

\* the charts of the bundle that draw the column called name alone
DistributionCharts(name) ==
    {i \in 1..Len(bundle.charts) : bundle.charts[i].cols = <<name>>}

\* C16: each of the first three categorical columns with a non-missing value
\* gets one chart of its value counts: a pie chart when it has at most
\* MAX_PIE_CATEGORIES different values, otherwise a bar chart of the
\* MAX_PIE_CATEGORIES most frequent
C16_PieOrBar ==
    bundle # <<>> =>
        \A k \in 1..Len(Head_n(bundle.column_types.categorical, 3)) :
            LET name == bundle.column_types.categorical[k]
                col == df.cols[ColIdx(df, name)]
                unique == Cardinality({col.vals[r] : r \in PresentRows(col)})
            IN unique > 0 =>
                  /\ Cardinality(DistributionCharts(name)) = 1
                  /\ \A i \in DistributionCharts(name) :
                        IF unique <= MAX_PIE_CATEGORIES
                        THEN bundle.charts[i].chart_type = "pie"
                             /\ bundle.charts[i].points = unique
                        ELSE bundle.charts[i].chart_type = "bar"
                             /\ bundle.charts[i].points = MAX_PIE_CATEGORIES

\* C17: every line chart carries at most 200 points, whatever the number of
\* rows that hold both the date and the number: a longer series is subsampled
C17_LineChartPoints ==
    bundle # <<>> =>
        \A i \in 1..Len(bundle.charts) :
            bundle.charts[i].chart_type = "line" => bundle.charts[i].points <= LINE_MAX_POINTS

\* the sentences of the bundle
Narrative == bundle.insights

\* the place of a sentence's group in the order of the groups
Rank(group) ==
    CASE group = "overview" -> 1
      [] group \in {"range", "skew"} -> 2
      [] group = "max" -> 3
      [] group = "correlation" -> 4
      [] group = "category" -> 5
      [] group = "trend" -> 6

\* the sentences of one group, in the order they stand in
OfGroup(group) ==
    Take(Narrative,
         SelectIdx([i \in 1..Len(Narrative) |-> Narrative[i].group = group], 1, Len(Narrative)))

\* the values the table holds in the column called name
Held(name) == dropna(df.cols[ColIdx(df, name)])

\* the largest value the table holds in the column called name
LargestHeld(name) == LET xs == RSort(Held(name)) IN xs[Len(xs)]

\* the names of `names` whose columns hold a value, in their order
WithValues(names) ==
    Take(names, SelectIdx([i \in 1..Len(names) |-> Held(names[i]) # <<>>], 1, Len(names)))

\* the maximum the descriptive statistics report for the column called name
ReportedMax(name) ==
    LET stats == bundle.descriptive_stats
        i == CHOOSE k \in 1..Len(stats) : stats[k].column = name
    IN stats[i].max

\* everything the order of the sentences promises but the column the
\* largest-maximum sentence names
GroupsInOrder ==
    LET numeric == WithValues(bundle.column_types.numeric)
        ranges == OfGroup("range")
        pairs == bundle.correlation.significant_pairs
        tables == bundle.frequency_tables
        quoted == SelectIdx([i \in 1..Len(tables) |-> tables[i].values # <<>>], 1, Len(tables))
        categories == OfGroup("category")
    IN /\ Len(Narrative) >= 1
       /\ Narrative[1].group = "overview"
       /\ Len(OfGroup("overview")) = 1
       /\ \A i, j \in 1..Len(Narrative) :
             i < j => Rank(Narrative[i].group) <= Rank(Narrative[j].group)
       /\ [i \in 1..Len(ranges) |-> ranges[i].cols[1]] = numeric
       /\ \A i \in 1..Len(Narrative) :
             Narrative[i].group = "skew" =>
                /\ Narrative[i - 1].group = "range"
                /\ Narrative[i - 1].cols = Narrative[i].cols
       /\ Len(OfGroup("max")) = IF numeric = <<>> THEN 0 ELSE 1
       /\ Len(OfGroup("correlation")) = IF pairs = <<>> THEN 0 ELSE 1
       /\ \A i \in 1..Len(Narrative) :
             Narrative[i].group = "correlation" =>
                LET r == pairs[1].correlation
                IN /\ Narrative[i].cols = <<pairs[1].col1, pairs[1].col2>>
                   /\ Narrative[i].words[1] = "strong" <=> RGt(RAbs(r), <<7, 10>>)
                   /\ Narrative[i].words[2] = "positive" <=> RGt(r, Num(0))
       /\ [i \in 1..Len(categories) |-> categories[i].cols[1]]
             = [i \in 1..Len(quoted) |-> tables[quoted[i]].column]

\* the largest-maximum sentence names the first column, in input order, with
\* the largest key among the numeric columns that hold a value
NamesFirstLargest(Key(_)) ==
    LET numeric == WithValues(bundle.column_types.numeric)
    IN \A i \in 1..Len(Narrative) :
          Narrative[i].group = "max" =>
             \E k \in 1..Len(numeric) :
                /\ Narrative[i].cols = <<numeric[k]>>
                /\ \A j \in 1..Len(numeric) : ~RGt(Key(numeric[j]), Key(numeric[k]))
                /\ \A j \in 1..(k - 1) : RLt(Key(numeric[j]), Key(numeric[k]))

\* C21 as stated: the sentences of generate_nlg_insights stand in the order of
\* their groups - one overview sentence first, the range sentence of every
\* numeric column in classification order with its skew sentence right after
\* it, the largest-maximum sentence, at most one strongest-correlation
\* sentence (strong iff |r| > 0.7, positive iff r > 0), the category sentences,
\* the trend sentences - and the largest-maximum sentence names the column
\* that holds the largest value of the table, the first such column in input
\* order when several hold it
C21_SentenceOrder ==
    bundle # <<>> => GroupsInOrder /\ NamesFirstLargest(LargestHeld)

\* C21 as the code has it: the same order of the groups, and the
\* largest-maximum sentence (there when some numeric column holds a value)
\* names the first column, in input order, whose maximum as the descriptive
\* statistics report it - rounded to four places - is the largest; a column
\* whose maximum is larger by less than the rounding loses to an earlier one
C21_SentenceOrder_ReportedMaxima ==
    bundle # <<>> => GroupsInOrder /\ NamesFirstLargest(ReportedMax)

\* a narrative with a sentence of every group, where two columns hold the
\* largest maximum and the sentence names the earlier of them
C21_Witness ==
    /\ bundle # <<>>
    /\ \A g \in {"overview", "range", "skew", "max", "correlation", "category", "trend"} :
          OfGroup(g) # <<>>
    /\ LET numeric == WithValues(bundle.column_types.numeric)
       IN \E j, k \in 1..Len(numeric) :
             /\ j < k
             /\ OfGroup("max")[1].cols = <<numeric[j]>>
             /\ ReportedMax(numeric[j]) = ReportedMax(numeric[k])

---------------------------------------------------------------------------
(* Properties of the stored files *)

\* C12: saving the cleaned table with to_csv and reloading it with load_csv
\* gives the same number of rows, the same columns and, for every column that
\* is not floating-point, the same semantic type and the same values
C12_RoundTrip ==
    (processed # <<>> /\ pass = 1) =>
        LET back == load_csv(processed[1].file)
        IN /\ back.raises = ""
           /\ back.df.n = df.n
           /\ ColNames(back.df) = ColNames(df)
           /\ \A i \in 1..Len(df.cols) :
                 df.cols[i].dtype \notin FloatDtypes =>
                    /\ SemanticType(back.df.cols[i].dtype) = SemanticType(df.cols[i].dtype)
                    /\ back.df.cols[i].vals = df.cols[i].vals

---------------------------------------------------------------------------
(* Properties of the web application *)

\* C13: the pipeline never runs on rejected input: a table of zero rows or zero
\* columns, and a file whose upload was rejected, is answered with a client
\* error before ETLPipeline.run is invoked on it
C13_NeverRunsOnRejected ==
    called # <<>> =>
        /\ raw.n > 0 /\ Len(raw.cols) > 0
        /\ \E i \in 1..Len(uploads) :
              /\ load_csv(uploads[i]).raises = ""
              /\ load_csv(uploads[i]).df = raw
              /\ upload_file([ext |-> "csv", size |-> 1, content |-> uploads[i]], FALSE)
                    .response.status = 200

\* C14: an unexpected internal failure is answered with the generic
\* internal-error message alone; the text of the exception is in the server log
\* and not in the body of the response
C14_GenericInternalError ==
    (response # <<>> /\ response.status = 500) =>
        /\ response.body = <<GenericInternalError>>
        /\ \E rec \in server_log : rec.level = "exception" /\ rec.exc # ""
        /\ \A rec \in server_log : \A k \in 1..Len(response.body) : response.body[k] # rec.exc

====
